---- MODULE Spec2Model ----
(***************************************************************************)
(* Model of the a-cut-above storefront client: the cart store              *)
(* (context/CartContext.tsx), the stock helpers and product cards of the   *)
(* shop page (pages/public/ShopPage.tsx), the stock-check / submit logic   *)
(* of the checkout page (pages/public/CheckoutPage.tsx), and the order     *)
(* totals of the admin tabs (components/OrdersTab.tsx, DashboardTab.tsx),  *)
(* the admin page's loading (pages/admin/AdminDashboardPage.tsx) and the   *)
(* wholesale PIN (api/client.ts, components/TopBar.tsx).                   *)
(*                                                                         *)
(* Specifications:                                                         *)
(*   SpecCart   the cart store driven directly through its public API      *)
(*   SpecStore  the cart store over any persisted value, with restarts     *)
(*   SpecClamp  the pure stock helpers applied to drawn inputs             *)
(*   SpecShop   the shop page handlers over the cart store                 *)
(*   Spec       the checkout page: debounce, stock checks, submit          *)
(*   SpecLive   the checkout page against a backend that answers every     *)
(*              request, and answers it by its stock                       *)
(*   SpecOrders the admin orders tab: recomputed totals, weight entry      *)
(*   SpecDashboard  the dashboard aggregates over the fetched orders       *)
(*   SpecPin    the wholesale PIN helpers, the top bar and the request     *)
(*              interceptor over localStorage                              *)
(*   SpecLoad   the admin page's mount effect: session check, batch load,  *)
(*              report summary                                             *)
(*   SpecWeights  weight entry on the loaded admin page, with the reloads  *)
(*              it triggers                                                *)
(***************************************************************************)
EXTENDS Integers, Sequences, FiniteSets, TLC

\* ------------------------------------------------------------------ bounds
MaxQty == 3          \* largest quantity a cart line reaches in the model
MaxNeg == 2          \* size of the most negative quantity argument
MinQty == -MaxNeg
MaxCartQty == 4      \* largest line quantity when the store is driven directly
MaxLineQty == 2      \* largest line quantity on the checkout page
MaxReq == 3          \* stock-check requests issued per behaviour
MaxIssues == 2       \* length of the issues list of a 409 response
MaxStock == 3        \* largest finite stockQty of a loaded product
MaxOrders == 2       \* orders in the list the admin page fetched
MaxItemQty == 2      \* largest quantity of an order item
MaxWeight == 2       \* largest measured weight of a kg item
MaxLoads == 2        \* loadAll() calls per behaviour
MaxEntries == 2      \* weights entered per behaviour

Products == {"A", "B"}
NULL == -9           \* null (integer sentinel, below every quantity)
EMPTY == -8          \* "" as a weight (integer sentinel)

RECURSIVE SumSeq(_)
SumSeq(q) == IF Len(q) = 0 THEN 0 ELSE q[1] + SumSeq(Tail(q))

\* ------------------------------------------------------------- cart store
\* CartItem = { product: Product; qty: number }; the product snapshot
\* carries the fields the client logic reads.
PriceOf(id) == IF id = "A" THEN 2 ELSE 3
ProductOf(id) == [id |-> id, price |-> PriceOf(id)]
Line(id, q) == [product |-> ProductOf(id), qty |-> q]

RECURSIVE subtotalOf(_), subtotalOf_Count(_)

HasLine(prev, productId) == \E k \in 1..Len(prev) : prev[k].product.id = productId

\* prev.find((x) => x.product.id === productId): the first matching line
FindLine(prev, productId) ==
    prev[CHOOSE k \in 1..Len(prev) :
            /\ prev[k].product.id = productId
            /\ \A j \in 1..(k-1) : prev[j].product.id # productId]

\* mutant of add: the existing line is not looked for
add_Append(prev, product, qty) == Append(prev, [product |-> product, qty |-> qty])

\* add: setItems(prev => existing ? prev.map(bump) : [...prev, {product, qty}])
add(prev, product, qty) ==
    IF HasLine(prev, product.id)
    THEN [k \in 1..Len(prev) |->
            IF prev[k].product.id = product.id
            THEN [prev[k] EXCEPT !.qty = prev[k].qty + qty]
            ELSE prev[k]]
    ELSE Append(prev, [product |-> product, qty |-> qty])

\* remove: prev.filter(i => i.product.id !== productId)
remove(prev, productId) ==
    LET keep(i) == i.product.id # productId IN SelectSeq(prev, keep)

\* mutant of setQty: the lines are not filtered after the map
setQty_NoFilter(prev, productId, qty) ==
    [k \in 1..Len(prev) |->
        IF prev[k].product.id = productId
        THEN [prev[k] EXCEPT !.qty = qty]
        ELSE prev[k]]

\* setQty: prev.map(i => id matches ? {...i, qty} : i).filter(i => i.qty > 0)
setQty(prev, productId, qty) ==
    LET mapped == [k \in 1..Len(prev) |->
                      IF prev[k].product.id = productId
                      THEN [prev[k] EXCEPT !.qty = qty]
                      ELSE prev[k]]
        keep(i) == i.qty > 0
    IN  SelectSeq(mapped, keep)

\* clear: setItems([])
clear == <<>>

\* mutant of subtotalOf: the quantities are summed, not priced
subtotalOf_Count(its) ==
    IF Len(its) = 0 THEN 0
    ELSE LET rest == subtotalOf_Count(Tail(its)) IN its[1].qty + rest

\* subtotal: items.reduce((sum, i) => sum + i.product.price * i.qty, 0)
subtotalOf(its) ==
    IF Len(its) = 0 THEN 0
    ELSE LET head == SubSeq(its, 1, Len(its) - 1)
         IN  subtotalOf(head) + its[Len(its)].product.price * its[Len(its)].qty

QtysWithin(its) == \A k \in 1..Len(its) : its[k].qty \in MinQty..MaxQty
LineQtysWithin(its) == \A k \in 1..Len(its) : its[k].qty \in MinQty..MaxLineQty
CartQtysWithin(its) == \A k \in 1..Len(its) : its[k].qty \in MinQty..MaxCartQty

\* ------------------------------------------------------------ persistence
\* localStorage[STORAGE_KEY].  The value is a text; the model keeps what
\* JSON.parse makes of it: "absent" (getItem returns null), "empty" (""),
\* "unparseable" (JSON.parse throws), "notArray" (parses to null, a number,
\* a string or an object), "notLines" (parses to an array whose elements are
\* not cart lines, e.g. [1]) and "array": the text of a list of lines, each
\* line written as its fields in order (product.id, product.price, qty).
Raw(kind, body) == [kind |-> kind, body |-> body]
Absent == Raw("absent", <<>>)
MalformedKinds == {"empty", "unparseable", "notArray", "notLines"}

\* mutant of JSONstringify: the quantities are not written
JSONstringify_NoQty(its) ==
    Raw("array", [k \in 1..Len(its) |-> <<its[k].product.id, its[k].product.price, 1>>])

\* JSON.stringify(items)
JSONstringify(its) ==
    Raw("array", [k \in 1..Len(its) |->
                     <<its[k].product.id, its[k].product.price, its[k].qty>>])

\* JSON.parse(raw) as CartItem[], for a text that is a list of lines
JSONparse(raw) ==
    [k \in 1..Len(raw.body) |->
        [product |-> [id |-> raw.body[k][1], price |-> raw.body[k][2]],
         qty |-> raw.body[k][3]]]

\* the useState initialiser: raw ? JSON.parse(raw) : [], [] when parse throws.
\* For "notArray" / "notLines" the state is the parsed value as it is, not a
\* list of lines; the model keeps no lines for it (see renderThrows).
initialItems(raw) ==
    IF raw.kind \in {"absent", "empty"} THEN <<>>
    ELSE IF raw.kind = "unparseable" THEN <<>>
    ELSE IF raw.kind = "array" THEN JSONparse(raw)
    ELSE <<>>

\* the first render computes subtotal = items.reduce((sum, i) => sum +
\* i.product.price * i.qty, 0): a TypeError when items is not an array or an
\* element has no product
renderThrows(raw) == raw.kind \in {"notArray", "notLines"}

\* the last call of the store: the operation, its arguments, the lines
\* before it and, for the initialisation, the value read from storage
Call(op, id, qty, before, raw) ==
    [op |-> op, id |-> id, qty |-> qty, before |-> before, raw |-> raw]
NoStoreCall == Call("none", "none", 0, <<>>, Absent)

\* ------------------------------------------------- shop page stock helpers
\* A loaded product list is a function from the loaded product ids to their
\* stockQty; NULL is "unlimited / wholesale".
Stocks == (0..MaxStock) \cup {NULL}
Categories == {"c1", "c2"}
CategoryOf(id) == IF id = "A" THEN "c1" ELSE "c2"
Max(a, b) == IF a >= b THEN a ELSE b
Min(a, b) == IF a <= b THEN a ELSE b
EmptyMap == [x \in {} |-> 0]

\* stockFor(p): p.stockQty === null || undefined ? null : Number(p.stockQty)
stockFor(prods, id) == prods[id]

\* inCartQty(productId): Number(items.find(...)?.qty || 0)
inCartQty(its, id) == IF HasLine(its, id) THEN FindLine(its, id).qty ELSE 0

\* mutant of remainingStock: the quantity already in the cart is not deducted
remainingStock_IgnoreCart(prods, its, id) == stockFor(prods, id)

\* mutant of remainingStock: the difference is not floored at 0
remainingStock_NoFloor(prods, its, id) ==
    IF stockFor(prods, id) = NULL THEN NULL
    ELSE stockFor(prods, id) - inCartQty(its, id)

\* remainingStock(p): s === null ? null : Math.max(0, s - inCartQty(p.id))
remainingStock(prods, its, id) ==
    IF stockFor(prods, id) = NULL THEN NULL
    ELSE Max(0, stockFor(prods, id) - inCartQty(its, id))

\* mutant of clampQtyForProduct: the finite-stock branch forgets Math.min
clampQtyForProduct_NoMin(prods, its, id, desired) == Max(1, desired)

\* clampQtyForProduct(p, desired)
clampQtyForProduct(prods, its, id, desired) ==
    IF stockFor(prods, id) = NULL THEN Max(1, desired)
    ELSE Max(1, Min(desired, remainingStock(prods, its, id)))

\* isSoldOut(p): s === null ? false : s <= 0
isSoldOut(prods, id) ==
    IF stockFor(prods, id) = NULL THEN FALSE ELSE stockFor(prods, id) <= 0

\* product card: currentQty = qtyMap[p.id] ?? 1
currentQty(qm, id) == IF id \in DOMAIN qm THEN qm[id] ELSE 1

\* product card: safeQty
safeQty(prods, its, qm, id) ==
    IF remainingStock(prods, its, id) = NULL THEN Max(1, currentQty(qm, id))
    ELSE Max(1, Min(currentQty(qm, id), Max(1, remainingStock(prods, its, id))))

\* product card: addDisabled
addDisabled(open, prods, its, id) ==
    \/ ~open
    \/ isSoldOut(prods, id)
    \/ (remainingStock(prods, its, id) # NULL /\ remainingStock(prods, its, id) <= 0)

\* filtered: the products that get a card (category filter)
filtered(prods, cat) ==
    {id \in DOMAIN prods : cat = "all" \/ CategoryOf(id) = cat}

\* Rendering a card whose safeQty differs from currentQty queues a microtask
\* setQtyMap(m => ({...m, [p.id]: safeQty})); it runs before the next event.
RenderSync(prods, its, qm, cat) ==
    LET stale == {id \in filtered(prods, cat) :
                     safeQty(prods, its, qm, id) # currentQty(qm, id)}
    IN  [id \in (DOMAIN qm) \cup stale |->
            IF id \in stale THEN safeQty(prods, its, qm, id) ELSE qm[id]]

NoCall == [id |-> "none"]

\* --------------------------------------------------------------- checkout
\* StockIssue as reported by the backend ({productId, requested, available,
\* reason}); the model keeps the fields the page reads.
\* During one visit the backend has one pack of A left and none of B.
AvailableOf(id) == IF id = "A" THEN 1 ELSE 0
Issue == {[productId |-> id, available |-> AvailableOf(id), reason |-> "INSUFFICIENT"] :
            id \in Products}

RECURSIVE SeqsUpTo(_, _)
SeqsUpTo(S, n) ==
    IF n = 0 THEN {<<>>}
    ELSE LET shorter == SeqsUpTo(S, n - 1)
         IN  shorter \cup {Append(q, x) : q \in {t \in shorter : Len(t) = n - 1}, x \in S}

\* e.response.data.issues of a 409 answer
IssueLists == SeqsUpTo(Issue, MaxIssues)

\* what the backend can answer to a POST
Ok == [status |-> 200, issues |-> <<>>]
Failure == [status |-> 500, issues |-> <<>>]
Conflict(list) == [status |-> 409, issues |-> list]
Responses == {Ok, Failure} \cup {Conflict(list) : list \in IssueLists}

\* const map = {}; for (const it of issues) map[String(it.productId)] = it;
IssueMap(issues) ==
    LET ids == {issues[k].productId : k \in 1..Len(issues)}
        last(id) == CHOOSE k \in 1..Len(issues) :
                        /\ issues[k].productId = id
                        /\ \A j \in (k+1)..Len(issues) : issues[j].productId # id
    IN  [id \in ids |-> issues[last(id)]]

\* the product ids a 409 answer reports
ReportedIds(resp) == {resp.issues[k].productId : k \in 1..Len(resp.issues)}

\* asInt(v, fallback)
asInt(v, fallback) == IF v = NULL THEN fallback ELSE Max(1, v)

\* hasBlockingIssues: Object.keys(stockIssuesById).length > 0
hasBlockingIssues(issuesById) == DOMAIN issuesById # {}

\* Place order button: disabled={!windowState.open || items.length === 0 || hasBlockingIssues}
placeOrderDisabled(open, its, issuesById) ==
    ~open \/ Len(its) = 0 \/ hasBlockingIssues(issuesById)

\* the debounce effect's dependency: items.map(i => `${id}:${Number(qty || 0)}`).join("|")
itemsKey(its) == [k \in 1..Len(its) |-> <<its[k].product.id, its[k].qty>>]

\* the request body of stock-check / orders: items.map(i => ({productId, qty}))
payloadItems(its) == [k \in 1..Len(its) |-> [productId |-> its[k].product.id, qty |-> its[k].qty]]

\* the debounce effect: a pending timeout and the items of the render whose
\* runStockCheck it will call
Timer(its) == [items |-> its]

\* mutant of cleanup: the effect returns no cleanup
cleanup_None(pending, t) == pending

\* the effect's cleanup: clearTimeout(t)
cleanup(pending, t) == pending \ {t}

\* the effect's body: t = setTimeout(() => runStockCheck(), 250)
arm(pending, its) == pending \cup {Timer(its)}

\* mutant of checkStored: a 409 merges the reported issues into the stored ones
checkStored_Merge(resp, issuesById) ==
    IF resp.status = 200 THEN EmptyMap
    ELSE IF resp.status = 409
    THEN [id \in (DOMAIN issuesById) \cup (DOMAIN IssueMap(resp.issues)) |->
             IF id \in DOMAIN IssueMap(resp.issues)
             THEN IssueMap(resp.issues)[id] ELSE issuesById[id]]
    ELSE issuesById

\* runStockCheck, the part after the response: what it stores and returns
\* for a backend answer, given the current stockIssuesById
checkStored(resp, issuesById) ==
    IF resp.status = 200 THEN EmptyMap
    ELSE IF resp.status = 409 THEN IssueMap(resp.issues)
    ELSE issuesById
checkOk(resp) == resp.status # 409

\* ------------------------------------------------------------ admin orders
\* AdminOrderItem: {id, productName, unit, unitPrice, qty, weightKg,
\* lineTotal}; weightKg is a number, null (NULL), "" (EMPTY) or missing
\* (NULL); lineTotal is the figure the backend sent.
UnitPriceOf(name) == IF name = "pies" THEN 10 ELSE 4
BackendLineTotalOf(name) == IF name = "pies" THEN 6 ELSE 3

PackItem(q) ==
    [productName |-> "pies", unit |-> "pack", unitPrice |-> UnitPriceOf("pies"),
     qty |-> q, weightKg |-> NULL, lineTotal |-> BackendLineTotalOf("pies")]

KgItem(w) ==
    [productName |-> "steak", unit |-> "kg", unitPrice |-> UnitPriceOf("steak"),
     qty |-> MaxItemQty, weightKg |-> w, lineTotal |-> BackendLineTotalOf("steak")]

\* the weights an item can arrive with, and the ones the weight input sends
Weights == {NULL, EMPTY} \cup (0..MaxWeight)
EnteredWeights == {NULL} \cup (0..MaxWeight)

ItemLists ==
    {<<>>} \cup {<<PackItem(q)>> : q \in 1..MaxItemQty}
           \cup {<<KgItem(w)>> : w \in Weights}
           \cup {<<PackItem(q), KgItem(w)>> : q \in 1..MaxItemQty, w \in Weights}
           \cup {<<KgItem(w), KgItem(NULL)>> : w \in Weights}

\* AdminOrder: the k-th order of the fetched list.  Orders 1 and 2 are of
\* the same customer and day and of different delivery windows; the total
\* is the figure the backend sent.
CustomerOf(k) == IF k <= 2 THEN "c1" ELSE "c2"
DayOf(k) == IF k <= 2 THEN "d1" ELSE "d2"
WindowOf(k) == IF k = 2 THEN "w2" ELSE "w1"
BackendTotalOf(k) == 5 + 2 * k

AdminOrderOf(k, its) ==
    [id |-> k, customerName |-> CustomerOf(k), day |-> DayOf(k),
     windowId |-> WindowOf(k), total |-> BackendTotalOf(k), subtotal |-> NULL,
     items |-> [j \in 1..Len(its) |->
                  [id |-> <<k, j>>, productName |-> its[j].productName,
                   unit |-> its[j].unit, unitPrice |-> its[j].unitPrice,
                   qty |-> its[j].qty, weightKg |-> its[j].weightKg,
                   lineTotal |-> its[j].lineTotal]]]

\* the items of the orders after the first: packs only, an unweighed kg
\* item, a weighed kg item
OtherItemLists == {<<PackItem(1)>>, <<KgItem(NULL)>>, <<KgItem(MaxWeight)>>}

\* the lists GET /api/admin/orders can return: the first order ranges over
\* all item lists, the others over OtherItemLists
FetchedLists ==
    UNION {{[k \in 1..len |-> AdminOrderOf(k, IF k = 1 THEN first ELSE rest[k])] :
                first \in ItemLists, rest \in [1..len -> OtherItemLists]} :
              len \in 0..MaxOrders}

\* isKgItem: String(it.unit || "").toLowerCase() === "kg"
isKgItem(it) == it.unit = "kg"

\* a weight that is null, undefined or ""
noWeight(w) == w = NULL \/ w = EMPTY

\* weightsComplete(order)
weightsComplete(order) ==
    LET kgItems == SelectSeq(order.items, isKgItem)
    IN  IF Len(kgItems) = 0 THEN TRUE
        ELSE \A k \in 1..Len(kgItems) : ~noWeight(kgItems[k].weightKg)

\* mutant of lineTotalClient: the kg item is priced by its quantity
lineTotalClient_ByQty(it) == it.unitPrice * it.qty

\* recomputeOrderClient, one item: unitPrice * weightKg for a kg item with a
\* weight, 0 for a kg item without, unitPrice * qty for any other item
lineTotalClient(it) ==
    IF it.unit = "kg"
    THEN IF noWeight(it.weightKg) THEN 0 ELSE it.unitPrice * it.weightKg
    ELSE it.unitPrice * it.qty

\* recomputeOrderClient(order), merged into the order: {...o, ...recomputed}
recomputeOrderClient(order) ==
    LET nextItems == [j \in 1..Len(order.items) |->
                         [order.items[j] EXCEPT !.lineTotal = lineTotalClient(order.items[j])]]
        subtotal == SumSeq([j \in 1..Len(nextItems) |-> nextItems[j].lineTotal])
    IN  [order EXCEPT !.items = nextItems, !.subtotal = subtotal, !.total = subtotal]

\* the normalize effect: orders.map(o => ({...o, ...recomputeOrderClient(o)}))
normalize(list) == [k \in 1..Len(list) |-> recomputeOrderClient(list[k])]

\* mutant of patchWeight: the weight is patched, the totals are not recomputed
patchWeight_NoRecompute(prev, itemId, weightKg) ==
    [k \in 1..Len(prev) |->
        [prev[k] EXCEPT !.items =
            [j \in 1..Len(prev[k].items) |->
                IF prev[k].items[j].id = itemId
                THEN [prev[k].items[j] EXCEPT !.weightKg = weightKg]
                ELSE prev[k].items[j]]]]

\* updateKgWeight, the setDisplayOrders updater: the order holding itemId
\* gets the weight patched and is recomputed, the others are kept
patchWeight(prev, itemId, weightKg) ==
    [k \in 1..Len(prev) |->
        IF \E j \in 1..Len(prev[k].items) : prev[k].items[j].id = itemId
        THEN recomputeOrderClient(
                [prev[k] EXCEPT !.items =
                    [j \in 1..Len(prev[k].items) |->
                        IF prev[k].items[j].id = itemId
                        THEN [prev[k].items[j] EXCEPT !.weightKg = weightKg]
                        ELSE prev[k].items[j]]])
        ELSE prev[k]]

\* OrdersTab money(v): "$" + n.toFixed(2) for a finite number, a dash otherwise
moneyShown(v) ==
    IF v = NULL THEN [text |-> "dash", amount |-> 0] ELSE [text |-> "amount", amount |-> v]

\* mainColumns "Weights": the Complete / Missing tag
weightsTag(order) == IF weightsComplete(order) THEN "Complete" ELSE "Missing"

\* --------------------------------------------------------------- dashboard
\* n(v): the number, or 0 when it is not finite
n(v) == IF v = NULL \/ v = EMPTY THEN 0 ELSE v

\* mutant of moneyReady: every order's money is trusted
moneyReady_Always(order) == TRUE

\* moneyReady(order)
moneyReady(order) == weightsComplete(order)

\* the dashboard filters: windowId ("" for all windows) and the days of the
\* date range
Filters == {[windowId |-> w, days |-> d] : w \in {"", "w1", "w2"}, d \in {{"d1", "d2"}, {"d1"}}}

\* filteredOrders
filteredOrders(list, f) ==
    LET keep(o) == (f.windowId = "" \/ o.windowId = f.windowId) /\ o.day \in f.days
    IN  SelectSeq(list, keep)

\* the money an order brings to an aggregate: if (moneyReady(o)) ... += n(o.total)
moneyOf(o) == IF moneyReady(o) THEN n(o.total) ELSE 0

\* the quantity / backend line total of the items of an order named name
qtyOfName(o, name) ==
    SumSeq([j \in 1..Len(o.items) |->
               IF o.items[j].productName = name THEN n(o.items[j].qty) ELSE 0])
revenueOfName(o, name) ==
    SumSeq([j \in 1..Len(o.items) |->
               IF o.items[j].productName = name /\ moneyReady(o)
               THEN n(o.items[j].lineTotal) ELSE 0])

\* kpis, salesSeries, topProducts and topCustomers over the filtered orders F
Dashboard(F, f) ==
    LET ready == SelectSeq(F, moneyReady)
        idx == 1..Len(F)
        days == {F[k].day : k \in idx}
        names == UNION {{F[k].items[j].productName : j \in 1..Len(F[k].items)} : k \in idx}
        customers == {F[k].customerName : k \in idx}
    IN  [shown |-> TRUE, filter |-> f, filtered |-> F,
         totalOrders |-> Len(F),
         moneyOrders |-> Len(ready),
         revenue |-> SumSeq([k \in 1..Len(ready) |-> n(ready[k].total)]),
         itemsSold |-> SumSeq([k \in idx |->
                          SumSeq([j \in 1..Len(F[k].items) |-> n(F[k].items[j].qty)])]),
         pendingWeights |-> Len(F) - Len(ready),
         salesSeries |-> [d \in days |->
             [orders |-> SumSeq([k \in idx |-> IF F[k].day = d THEN 1 ELSE 0]),
              revenue |-> SumSeq([k \in idx |-> IF F[k].day = d THEN moneyOf(F[k]) ELSE 0])]],
         topProducts |-> [name \in names |->
             [qty |-> SumSeq([k \in idx |-> qtyOfName(F[k], name)]),
              revenue |-> SumSeq([k \in idx |-> revenueOfName(F[k], name)])]],
         topCustomers |-> [c \in customers |->
             [orders |-> SumSeq([k \in idx |-> IF F[k].customerName = c THEN 1 ELSE 0]),
              spend |-> SumSeq([k \in idx |->
                           IF F[k].customerName = c THEN moneyOf(F[k]) ELSE 0])]]]

NoDash == [shown |-> FALSE]

\* ---------------------------------------------------- admin page requests
\* loadAll(): the four lists fetched by Promise.all
FetchNames == {"products", "orders", "windows", "categories"}

\* products, windows and categories are kept as the number of the loadAll()
\* call that fetched them (0: the initial []); orders is the list itself
NoLists == [products |-> 0, windows |-> 0, categories |-> 0]
NothingGot == [products |-> 0, windows |-> 0, categories |-> 0, orders |-> <<>>]

\* a loadAll() call in flight: awaiting ensureAuth() ("me") or Promise.all
\* ("fetch") with the fetches still pending and the answers got so far
LoadCall(id, stage, pending, got) ==
    [id |-> id, stage |-> stage, pending |-> pending, got |-> got]

\* what GET /api/admin/<name> answers to call id, the server holding orders srv
Fetched(name, id, srv) == IF name = "orders" THEN srv ELSE id

\* mutant of loadApplies: each list is set as soon as its fetch is answered
loadApplies_Eager(pending) == TRUE

\* loadAll(): the setters run once Promise.all has resolved, that is when no
\* fetch is pending any more
loadApplies(pending) == pending = {}

\* PUT /api/admin/order-items/:id/weight in flight
WeightPut(seq, itemId, weightKg, stored) ==
    [seq |-> seq, itemId |-> itemId, weightKg |-> weightKg, stored |-> stored]

\* the server stores a weight: the item's weightKg is replaced
storeWeight(srv, itemId, weightKg) ==
    [k \in 1..Len(srv) |->
        [srv[k] EXCEPT !.items =
            [j \in 1..Len(srv[k].items) |->
                IF srv[k].items[j].id = itemId
                THEN [srv[k].items[j] EXCEPT !.weightKg = weightKg]
                ELSE srv[k].items[j]]]]

\* the item with this id in a list of orders
ItemOf(list, itemId) == list[itemId[1]].items[itemId[2]]

\* ---------------------------------------------------------- wholesale PIN
\* localStorage keys: the one the request interceptor and the top bar read,
\* and KEY of the wholesale PIN helpers
InterceptorKey == "aca_wholesale_pin"
KEY == "acutabove_wholesale_pin"
PinKeys == {InterceptorKey, KEY}
Pins == {"1111", "2222"}
NoValue == "(null)"

\* getWholesalePin / setWholesalePin / clearWholesalePin
getWholesalePin(store) == store[KEY]
setWholesalePin(store, pin) == [store EXCEPT ![KEY] = pin]
clearWholesalePin(store) == [store EXCEPT ![KEY] = NoValue]

\* api.interceptors.request: the x-wholesale-pin header of a request
\* (NoValue: the header is deleted)
wholesaleHeader(store) == store[InterceptorKey]

\* the last PIN operation (op, pin) and, once a request has been sent since,
\* the x-wholesale-pin header of the last request
Request(sent, header, op, pin) == [sent |-> sent, header |-> header, op |-> op, pin |-> pin]
NoRequest == Request(FALSE, NoValue, "none", NoValue)

VARIABLES items,        \* CartProvider: items
          stored,       \* localStorage[STORAGE_KEY]
          subtotal,     \* CartProvider: subtotal, as the last render computed it
          error,        \* an error thrown while rendering CartProvider
          call,         \* the last call of the cart store
          products,     \* ShopPage: products (id -> stockQty)
          shopWindow,   \* ShopPage: windowState.open
          qtyMap,       \* ShopPage: qtyMap
          activeCat,    \* ShopPage: activeCat
          lastAdd,      \* the last Add click that reached add(p, desired)
          clampRes,     \* the last clampQtyForProduct call and its result
          mounted,      \* CheckoutPage is mounted
          windowReq,    \* loadWindow(): GET order-window in flight
          windowState,  \* CheckoutPage: windowState.open
          submitting,   \* CheckoutPage: submitting
          stockIssuesById, \* CheckoutPage: stockIssuesById
          timers,       \* the debounce effect's timeouts that are pending
          reqSeq,       \* number of stock-check requests issued so far
          checks,       \* stock-check requests in flight
          orderReq,     \* submit's POST /api/public/orders in flight
          last,         \* what the last handler handled and notified
          adminOrders,  \* AdminDashboardPage: orders, the list last fetched
          displayOrders, \* OrdersTab: displayOrders
          dash,         \* DashboardTab: the aggregates of its last render
          loading,      \* AdminDashboardPage: loading
          isAuthed,     \* AdminDashboardPage: isAuthed
          route,        \* the route shown: "dashboard", "login" or "none"
          lists,        \* AdminDashboardPage: products, windows, categories
          report,       \* AdminDashboardPage: report (0 for null)
          loads,        \* loadAll() calls in flight
          loadSeq,      \* number of loadAll() calls started so far
          reportReq,    \* loadReport(): GET reports/summary in flight
          puts,         \* updateKgWeight(): weight requests in flight
          putSeq,       \* number of weights entered so far
          server,       \* the orders as the backend holds them
          entered,      \* item id -> the weight the operator entered last
          sessionOk,    \* a session check has succeeded on this page
          requested,    \* the admin data requests issued so far
          adminLast,    \* what the last admin handler handled and notified
          pinStore,     \* localStorage: the wholesale PIN keys
          isWholesale,  \* TopBar: isWholesale
          pathname,     \* TopBar: location.pathname
          lastRequest   \* the last API request: its x-wholesale-pin header

cartVars == <<items, stored, subtotal, error, call>>
shopVars == <<products, shopWindow, qtyMap, activeCat, lastAdd, clampRes>>
checkoutVars == <<mounted, windowReq, windowState, submitting, stockIssuesById,
                  timers, reqSeq, checks, orderReq, last>>
adminVars == <<adminOrders, displayOrders, dash>>
pageVars == <<loading, isAuthed, route, lists, report, loads, loadSeq, reportReq,
              puts, putSeq, server, entered, sessionOk, requested, adminLast>>
pinVars == <<pinStore, isWholesale, pathname, lastRequest>>
vars == <<cartVars, shopVars, checkoutVars, adminVars, pageVars, pinVars>>

\* the record of the last handler: the answer it handled, what it notified
\* (message.error / message.success), and the cart, issues and request count
\* it started from
Last(kind, resp, its, issuesById, seq, nt) ==
    [kind |-> kind, resp |-> resp, items |-> its, issues |-> issuesById,
     seq |-> seq, note |-> nt]
Quiet == Last("none", Ok, <<>>, EmptyMap, 0, "none")

CheckoutIdle ==
    /\ mounted = FALSE
    /\ windowReq = FALSE
    /\ windowState = FALSE
    /\ submitting = FALSE
    /\ stockIssuesById = EmptyMap
    /\ timers = {}
    /\ reqSeq = 0
    /\ checks = {}
    /\ orderReq = {}
    /\ last = Quiet

AdminIdle ==
    /\ adminOrders = <<>>
    /\ displayOrders = <<>>
    /\ dash = NoDash

\* the record of the last admin handler: what it was, the loadAll() call
\* and the item it was about, the error notifications (message.error) it
\* raised, and the state it started from
NoItem == <<0, 0>>
AdminLastOf(kind, callId, itemId, weightKg, errors, orders, lsts, display, seq) ==
    [kind |-> kind, call |-> callId, itemId |-> itemId, weightKg |-> weightKg,
     errors |-> errors, orders |-> orders, lists |-> lsts, display |-> display,
     loadSeq |-> seq]
AdminLast(kind, callId, itemId, weightKg, errors) ==
    AdminLastOf(kind, callId, itemId, weightKg, errors,
                adminOrders, lists, displayOrders, loadSeq)
NoAdminLast == AdminLastOf("none", 0, NoItem, NULL, 0, <<>>, NoLists, <<>>, 0)

PageIdle ==
    /\ loading = FALSE
    /\ isAuthed = FALSE
    /\ route = "none"
    /\ lists = NoLists
    /\ report = 0
    /\ loads = {}
    /\ loadSeq = 0
    /\ reportReq = FALSE
    /\ puts = {}
    /\ putSeq = 0
    /\ server = <<>>
    /\ entered = EmptyMap
    /\ sessionOk = FALSE
    /\ requested = {}
    /\ adminLast = NoAdminLast

PinIdle ==
    /\ pinStore = [k \in PinKeys |-> NoValue]
    /\ isWholesale = FALSE
    /\ pathname = "/products"
    /\ lastRequest = NoRequest

ShopIdle ==
    /\ products = EmptyMap
    /\ shopWindow = FALSE
    /\ qtyMap = EmptyMap
    /\ activeCat = "all"
    /\ lastAdd = NoCall
    /\ clampRes = NoCall

\* setItems(next) and the persist effect that follows the re-render:
\* localStorage.setItem(STORAGE_KEY, JSON.stringify(items))
setItems(next) ==
    /\ items' = next
    /\ stored' = JSONstringify(next)
    /\ subtotal' = subtotalOf(next)
    /\ UNCHANGED <<error, call>>

\* the store is mounted over its lines: the persist effect has written them
Persisted ==
    /\ stored = JSONstringify(items)
    /\ subtotal = subtotalOf(items)
    /\ error = "none"
    /\ call = NoStoreCall

\* --------------------------------------------------------------- SpecCart
InitCart ==
    /\ items = <<>>
    /\ Persisted
    /\ ShopIdle
    /\ CheckoutIdle
    /\ AdminIdle
    /\ PageIdle
    /\ PinIdle

\* a call of the store's API: setItems(next), the persist effect, and the
\* record of the call
StoreCall(op, id, qty, next) ==
    /\ items' = next
    /\ stored' = JSONstringify(next)
    /\ subtotal' = subtotalOf(next)
    /\ call' = Call(op, id, qty, items, stored)
    /\ UNCHANGED <<error, shopVars, checkoutVars, adminVars, pageVars, pinVars>>

DoAdd(id, qty) ==
    /\ error = "none"
    /\ CartQtysWithin(add(items, ProductOf(id), qty))
    /\ StoreCall("add", id, qty, add(items, ProductOf(id), qty))

DoRemove(id) ==
    /\ error = "none"
    /\ StoreCall("remove", id, 0, remove(items, id))

DoSetQty(id, qty) ==
    /\ error = "none"
    /\ StoreCall("setQty", id, qty, setQty(items, id, qty))

DoClear ==
    /\ error = "none"
    /\ StoreCall("clear", "none", 0, clear)

NextCart ==
    \/ \E id \in Products, qty \in MinQty..MaxCartQty : DoAdd(id, qty)
    \/ \E id \in Products : DoRemove(id)
    \/ \E id \in Products, qty \in MinQty..MaxCartQty : DoSetQty(id, qty)
    \/ DoClear

SpecCart == InitCart /\ [][NextCart]_vars

\* C1: starting from an empty cart, after any sequence of add / remove /
\* setQty calls with any integer quantities, every line present in the cart
\* has quantity >= 1.
C1_NoNonPositiveLine == \A k \in 1..Len(items) : items[k].qty >= 1

\* the position of the line for productId in a cart that has one
LineAt(its, productId) == CHOOSE k \in 1..Len(its) : its[k].product.id = productId

\* C12: add(product, qty) on a cart holding a line for product.id adds
\* exactly qty to that line and adds no line; otherwise it appends exactly
\* one line with quantity qty; every other line is unchanged.  Starting from
\* the empty cart, the cart never holds two lines for one product id.
C12_AddIncrementsOrAppends ==
    /\ call.op = "add" =>
          IF HasLine(call.before, call.id)
          THEN /\ Len(items) = Len(call.before)
               /\ items[LineAt(items, call.id)].qty =
                     call.before[LineAt(call.before, call.id)].qty + call.qty
               /\ \A k \in 1..Len(items) :
                     /\ items[k].product = call.before[k].product
                     /\ items[k].product.id # call.id => items[k] = call.before[k]
          ELSE /\ Len(items) = Len(call.before) + 1
               /\ items[Len(items)] = [product |-> ProductOf(call.id), qty |-> call.qty]
               /\ \A k \in 1..Len(call.before) : items[k] = call.before[k]
    /\ \A j, k \in 1..Len(items) :
          items[j].product.id = items[k].product.id => j = k

\* C12 witness: add on a two-line cart raised the second line's quantity
\* from 1 to 3 and left the first line alone.
C12_Witness ==
    /\ call.op = "add" /\ call.qty = 2
    /\ Len(call.before) = 2 /\ Len(items) = 2
    /\ call.before[2].product.id = call.id
    /\ call.before[2].qty = 1 /\ items[2].qty = 3

\* C13: setQty(productId, qty) on a cart holding a line for productId sets
\* that line's quantity to exactly qty when qty > 0 (replaced, not added
\* to) and removes the line when qty <= 0; after setQty no line of the cart
\* has quantity 0 or negative.
C13_SetQtyReplacesOrRemoves ==
    call.op = "setQty" =>
        /\ (HasLine(call.before, call.id) /\ call.qty > 0) =>
              /\ HasLine(items, call.id)
              /\ items[LineAt(items, call.id)].qty = call.qty
        /\ call.qty <= 0 => ~HasLine(items, call.id)
        /\ ~HasLine(call.before, call.id) => ~HasLine(items, call.id)
        /\ \A k \in 1..Len(items) : items[k].qty >= 1

\* C13 witness: setQty(id, 2) on a line of quantity 3 left quantity 2.
C13_Witness ==
    /\ call.op = "setQty" /\ call.qty = 2
    /\ HasLine(call.before, call.id)
    /\ call.before[LineAt(call.before, call.id)].qty = 3
    /\ HasLine(items, call.id)
    /\ items[LineAt(items, call.id)].qty = 2

\* the lines of a cart that are not for productId, in order
OtherLines(its, productId) ==
    LET other(i) == i.product.id # productId IN SelectSeq(its, other)

\* C14: remove(productId) and setQty(productId, qty) affect only the line
\* for productId: the lines for the other product ids are all still there,
\* unchanged and in the same order, and a cart without a line for productId
\* is left as it was.
C14_OnlyTheNamedLine ==
    call.op \in {"remove", "setQty"} =>
        /\ OtherLines(items, call.id) = OtherLines(call.before, call.id)
        /\ ~HasLine(call.before, call.id) => items = call.before

\* C23: in every state observable after a cart mutation, subtotal is the
\* sum over the current lines of the product's unit price times the line's
\* quantity (0 for an empty cart), never that of an older line list.
C23_SubtotalOfCurrentLines ==
    subtotal = SumSeq([k \in 1..Len(items) |-> PriceOf(items[k].product.id) * items[k].qty])

\* C23 witness: setQty has just lowered a line of a two-line cart; subtotal
\* is 2 x 1 + 3 x 2 = 8, no longer the figure of the lines before the call.
C23_Witness ==
    /\ call.op = "setQty"
    /\ Len(call.before) = 2 /\ Len(items) = 2
    /\ items # call.before
    /\ items = <<Line("A", 1), Line("B", 2)>>
    /\ subtotal = 8

\* -------------------------------------------------------------- SpecStore
\* The cart store mounted over whatever localStorage holds, driven through
\* its API and restarted (page reload) at any time.
StoreInitCarts == {<<>>, <<Line("A", 1)>>, <<Line("B", 2), Line("A", 1)>>}

StoredValues ==
    {Absent} \cup {Raw(k, <<>>) : k \in MalformedKinds}
             \cup {JSONstringify(c) : c \in StoreInitCarts}

\* what the first render makes of a stored value
errorOf(raw) == IF renderThrows(raw) THEN "TypeError" ELSE "none"

\* the stored value after mounting: the persist effect runs after the first
\* render, and not at all when that render threw
storedAfterMount(raw) ==
    IF renderThrows(raw) THEN raw ELSE JSONstringify(initialItems(raw))

InitStore ==
    /\ call \in {Call("init", "none", 0, <<>>, raw) : raw \in StoredValues}
    /\ items = initialItems(call.raw)
    /\ error = errorOf(call.raw)
    /\ stored = storedAfterMount(call.raw)
    /\ subtotal = subtotalOf(items)
    /\ ShopIdle
    /\ CheckoutIdle
    /\ AdminIdle
    /\ PageIdle
    /\ PinIdle

\* the page is loaded again: CartProvider is initialised from storage
Reload ==
    /\ call' = Call("init", "none", 0, items, stored)
    /\ items' = initialItems(stored)
    /\ error' = errorOf(stored)
    /\ stored' = storedAfterMount(stored)
    /\ subtotal' = subtotalOf(initialItems(stored))
    /\ UNCHANGED <<shopVars, checkoutVars, adminVars, pageVars, pinVars>>

NextStore ==
    \/ \E id \in Products, qty \in MinQty..MaxCartQty : DoAdd(id, qty)
    \/ \E id \in Products : DoRemove(id)
    \/ \E id \in Products, qty \in MinQty..MaxCartQty : DoSetQty(id, qty)
    \/ DoClear
    \/ Reload

SpecStore == InitStore /\ [][NextStore]_vars

\* C15: once the persist effect has run, the stored value is the full
\* current line list, and initialising the store from it gives exactly the
\* same lines: same products, quantities and order (nothing is revalidated
\* or dropped on the way).
C15_PersistRoundTrip ==
    /\ error = "none" =>
          /\ stored = JSONstringify(items)
          /\ ~renderThrows(stored)
          /\ initialItems(stored) = items
    /\ (call.op = "init" /\ call.raw = JSONstringify(call.before)) =>
          /\ error = "none"
          /\ items = call.before

\* C15 witness: the store was restarted over a cart built by mutations (a
\* second line of quantity 3) and holds the same two lines again.
C15_Witness ==
    /\ call.op = "init"
    /\ Len(call.before) = 2 /\ call.before[2].qty = 3
    /\ items = call.before
    /\ call.raw.kind = "array" /\ Len(call.raw.body) = 2

\* C16: when the persisted value is absent or malformed (not parseable, or
\* parseable but not a list of cart lines) the store initialises to an empty
\* cart, and no error is raised, at initialisation or later.
C16_MalformedMeansEmpty ==
    /\ (call.op = "init" /\ call.raw.kind \in {"absent"} \cup MalformedKinds) =>
          (items = <<>> /\ error = "none")
    /\ error = "none"

\* ---------------------------------------------------------------- SpecPin
\* The wholesale PIN in localStorage, the top bar and the request
\* interceptor.  The interceptor's key may hold a PIN from an earlier visit.
InitPin ==
    /\ items = <<>>
    /\ Persisted
    /\ ShopIdle
    /\ CheckoutIdle
    /\ AdminIdle
    /\ PageIdle
    /\ pinStore \in [PinKeys -> Pins \cup {NoValue}]
    /\ isWholesale = (pinStore[InterceptorKey] # NoValue)
    /\ pathname = "/products"
    /\ lastRequest = NoRequest

\* setWholesalePin(pin)
SetWholesalePin(pin) ==
    /\ pinStore' = setWholesalePin(pinStore, pin)
    /\ lastRequest' = Request(FALSE, lastRequest.header, "set", pin)
    /\ UNCHANGED <<cartVars, shopVars, checkoutVars, adminVars, pageVars, isWholesale, pathname>>

\* clearWholesalePin()
ClearWholesalePin ==
    /\ pinStore' = clearWholesalePin(pinStore)
    /\ lastRequest' = Request(FALSE, lastRequest.header, "exit", NoValue)
    /\ UNCHANGED <<cartVars, shopVars, checkoutVars, adminVars, pageVars, isWholesale, pathname>>

\* top bar "Exit wholesale" (shown while isWholesale): removeItem,
\* setIsWholesale(false), window.location.reload()
ExitWholesale ==
    /\ isWholesale
    /\ pinStore' = [pinStore EXCEPT ![InterceptorKey] = NoValue]
    /\ isWholesale' = FALSE
    /\ lastRequest' = Request(FALSE, lastRequest.header, "exit", NoValue)
    /\ UNCHANGED <<cartVars, shopVars, checkoutVars, adminVars, pageVars, pathname>>

\* a menu link is followed: location.pathname changes: setIsWholesale(Boolean(getItem(...)))
Navigate(path) ==
    /\ path # pathname
    /\ pathname' = path
    /\ isWholesale' = (pinStore[InterceptorKey] # NoValue)
    /\ UNCHANGED <<cartVars, shopVars, checkoutVars, adminVars, pageVars, pinStore, lastRequest>>

\* any api.get / api.post / api.put: the interceptor sets or deletes the header
ApiRequest ==
    /\ lastRequest' = Request(TRUE, wholesaleHeader(pinStore), lastRequest.op, lastRequest.pin)
    /\ lastRequest' # lastRequest
    /\ UNCHANGED <<cartVars, shopVars, checkoutVars, adminVars, pageVars, pinStore, isWholesale, pathname>>

NextPin ==
    \/ \E pin \in Pins : SetWholesalePin(pin)
    \/ ClearWholesalePin
    \/ ExitWholesale
    \/ \E path \in {"/products", "/checkout"} : Navigate(path)
    \/ ApiRequest

SpecPin == InitPin /\ [][NextPin]_vars

\* C24: after the PIN has been stored (setWholesalePin), every subsequent
\* API request carries the header x-wholesale-pin with that PIN; after
\* wholesale mode has been exited (the stored PIN removed), no subsequent
\* request carries the header.
C24_HeaderFollowsStoredPin ==
    /\ (lastRequest.sent /\ lastRequest.op = "set") => lastRequest.header = lastRequest.pin
    /\ (lastRequest.sent /\ lastRequest.op = "exit") => lastRequest.header = NoValue

\* -------------------------------------------------------------- SpecClamp
\* The stock helpers applied to drawn inputs: any loaded stock, any cart
\* holding the product, any desired integer.
ClampCarts == {<<>>} \cup {<<Line(id, q)>> : id \in Products, q \in 1..MaxQty}

InitClamp ==
    /\ items \in ClampCarts
    /\ Persisted
    /\ products \in [Products -> Stocks]
    /\ shopWindow = FALSE
    /\ qtyMap = EmptyMap
    /\ activeCat = "all"
    /\ lastAdd = NoCall
    /\ clampRes = NoCall
    /\ CheckoutIdle
    /\ AdminIdle
    /\ PageIdle
    /\ PinIdle

ClampCall(id, desired) ==
    /\ clampRes' = [id |-> id, desired |-> desired,
                    remaining |-> remainingStock(products, items, id),
                    out |-> clampQtyForProduct(products, items, id, desired)]
    /\ UNCHANGED <<cartVars, products, shopWindow, qtyMap, activeCat, lastAdd, checkoutVars, adminVars, pageVars, pinVars>>

NextClamp == \E id \in Products, desired \in MinQty..(MaxQty + 2) : ClampCall(id, desired)

SpecClamp == InitClamp /\ [][NextClamp]_vars

\* C3 (as claimed): clampQtyForProduct returns a value >= 1 and, for a
\* product with finite stock, a value <= the product's remaining stock.
C3_ClampWithinRemaining ==
    clampRes # NoCall =>
        /\ clampRes.out >= 1
        /\ clampRes.remaining # NULL => clampRes.out <= clampRes.remaining

\* C3 (amended): clampQtyForProduct returns a value >= 1; for a product with
\* finite stock the value is <= max(1, remaining): <= remaining whenever
\* remaining >= 1, and exactly 1 when remaining = 0.
C3_ClampWithinMaxOneRemaining ==
    clampRes # NoCall =>
        /\ clampRes.out >= 1
        /\ clampRes.remaining # NULL =>
              /\ clampRes.out <= Max(1, clampRes.remaining)
              /\ clampRes.remaining >= 1 => clampRes.out <= clampRes.remaining
              /\ clampRes.remaining = 0 => clampRes.out = 1

\* C3 witness: a finite-stock call whose desired quantity was cut down to
\* the remaining stock.
C3_Witness ==
    /\ clampRes # NoCall
    /\ clampRes.remaining # NULL
    /\ clampRes.remaining >= 1
    /\ clampRes.desired > clampRes.remaining
    /\ clampRes.out = clampRes.remaining

\* the quantity of the cart's lines for product id, 0 when there is none
CartQtyOf(id) ==
    SumSeq([k \in 1..Len(items) |-> IF items[k].product.id = id THEN items[k].qty ELSE 0])

\* C22: remainingStock(p) is null if and only if the product's stock is
\* null; otherwise it is non-negative and equals max(0, stock - quantity of
\* p in the cart), the cart quantity being 0 when the cart has no line for p.
C22_RemainingStock ==
    clampRes # NoCall =>
        /\ clampRes.remaining = NULL <=> products[clampRes.id] = NULL
        /\ products[clampRes.id] # NULL =>
              /\ clampRes.remaining >= 0
              /\ clampRes.remaining =
                    IF products[clampRes.id] - CartQtyOf(clampRes.id) > 0
                    THEN products[clampRes.id] - CartQtyOf(clampRes.id)
                    ELSE 0

\* C22 witness: the cart holds more of the product than its stock (3 of a
\* stock of 1): the remaining stock is 0, not negative.
C22_Witness ==
    /\ clampRes # NoCall
    /\ products[clampRes.id] = 1
    /\ CartQtyOf(clampRes.id) = 3
    /\ clampRes.remaining = 0

\* --------------------------------------------------------------- SpecShop
\* The shop page over the cart store.  The cart is the one persisted by an
\* earlier visit; products and the order window arrive with load().
ShopInitCarts ==
    {<<>>, <<Line("A", 1)>>, <<Line("A", 2)>>, <<Line("B", 1), Line("A", 1)>>}

LoadedLists ==
    UNION {[D -> Stocks] : D \in (SUBSET Products) \ {{}}}

InitShop ==
    /\ items \in ShopInitCarts
    /\ Persisted
    /\ ShopIdle
    /\ CheckoutIdle
    /\ AdminIdle
    /\ PageIdle
    /\ PinIdle

\* load(): setWindowState(wRes.data); setProducts(raw.map(...))
Load(list, open) ==
    /\ products = EmptyMap
    /\ products' = list
    /\ shopWindow' = open
    /\ qtyMap' = RenderSync(list, items, qtyMap, activeCat)
    /\ UNCHANGED <<cartVars, activeCat, lastAdd, clampRes, checkoutVars, adminVars, pageVars, pinVars>>

\* category button: setActiveCat(c.key)
SetActiveCat(cat) ==
    /\ cat # activeCat
    /\ activeCat' = cat
    /\ qtyMap' = RenderSync(products, items, qtyMap, cat)
    /\ UNCHANGED <<cartVars, products, shopWindow, lastAdd, clampRes, checkoutVars, adminVars, pageVars, pinVars>>

\* product card InputNumber onChange: desired = Number(v || 1)
StageQty(id, v) ==
    LET desired == IF v = 0 \/ v = NULL THEN 1 ELSE v
        next == clampQtyForProduct(products, items, id, desired)
        qm == [x \in (DOMAIN qtyMap) \cup {id} |-> IF x = id THEN next ELSE qtyMap[x]]
    IN  /\ id \in filtered(products, activeCat)
        /\ ~addDisabled(shopWindow, products, items, id)
        /\ next <= MaxQty
        /\ qtyMap' = RenderSync(products, items, qm, activeCat)
        /\ UNCHANGED <<cartVars, products, shopWindow, activeCat, lastAdd, clampRes, checkoutVars, adminVars, pageVars, pinVars>>

\* product card Add button onClick
ClickAdd(id) ==
    LET remaining == remainingStock(products, items, id)
        desired == safeQty(products, items, qtyMap, id)
    IN  /\ id \in filtered(products, activeCat)
        /\ ~addDisabled(shopWindow, products, items, id)
        /\ IF remaining # NULL /\ desired > remaining
           THEN /\ qtyMap' = RenderSync(products, items,
                       [x \in (DOMAIN qtyMap) \cup {id} |->
                           IF x = id THEN Max(1, remaining) ELSE qtyMap[x]],
                       activeCat)
                /\ UNCHANGED <<cartVars, lastAdd>>
           ELSE /\ QtysWithin(add(items, ProductOf(id), desired))
                /\ setItems(add(items, ProductOf(id), desired))
                /\ lastAdd' = [id |-> id, desired |-> desired, remaining |-> remaining,
                               before |-> inCartQty(items, id)]
                /\ qtyMap' = RenderSync(products, items', qtyMap, activeCat)
        /\ UNCHANGED <<products, shopWindow, activeCat, clampRes, checkoutVars, adminVars, pageVars, pinVars>>

\* order summary row: qty = Number(row.qty || 1)
summaryQty(row) == IF row.qty = 0 THEN 1 ELSE row.qty

\* order summary "-" button: disabled={qty <= 1}; setQty(id, Math.max(1, qty - 1))
SummaryMinus(k) ==
    /\ k \in 1..Len(items)
    /\ ~(summaryQty(items[k]) <= 1)
    /\ setItems(setQty(items, items[k].product.id, Max(1, summaryQty(items[k]) - 1)))
    /\ qtyMap' = RenderSync(products, items', qtyMap, activeCat)
    /\ UNCHANGED <<products, shopWindow, activeCat, lastAdd, clampRes, checkoutVars, adminVars, pageVars, pinVars>>

\* order summary "+" button
SummaryPlus(k) ==
    LET id == items[k].product.id
        prod == id \in DOMAIN products
        qty == summaryQty(items[k])
    IN  /\ k \in 1..Len(items)
        /\ ~(prod /\ remainingStock(products, items, id) = 0)
        /\ IF ~prod
           THEN setItems(setQty(items, id, qty + 1))
           ELSE IF remainingStock(products, items, id) = NULL
                   \/ remainingStock(products, items, id) > 0
                THEN setItems(setQty(items, id, qty + 1))
                ELSE UNCHANGED cartVars
        /\ QtysWithin(items')
        /\ qtyMap' = RenderSync(products, items', qtyMap, activeCat)
        /\ UNCHANGED <<products, shopWindow, activeCat, lastAdd, clampRes, checkoutVars, adminVars, pageVars, pinVars>>

\* order summary delete button: remove(row.product.id)
SummaryRemove(k) ==
    /\ k \in 1..Len(items)
    /\ setItems(remove(items, items[k].product.id))
    /\ qtyMap' = RenderSync(products, items', qtyMap, activeCat)
    /\ UNCHANGED <<products, shopWindow, activeCat, lastAdd, clampRes, checkoutVars, adminVars, pageVars, pinVars>>

NextShop ==
    \/ \E list \in LoadedLists, open \in BOOLEAN : Load(list, open)
    \/ \E cat \in {"all"} \cup Categories : SetActiveCat(cat)
    \/ \E id \in Products, v \in {NULL} \cup (MinQty..(MaxQty + 2)) : StageQty(id, v)
    \/ \E id \in Products : ClickAdd(id)
    \/ \E k \in 1..Cardinality(Products) : SummaryMinus(k)
    \/ \E k \in 1..Cardinality(Products) : SummaryPlus(k)
    \/ \E k \in 1..Cardinality(Products) : SummaryRemove(k)

SpecShop == InitShop /\ [][NextShop]_vars

\* C4: for a loaded product with finite stock whose cart quantity is at
\* most its stock, no shop-page action (staging, Add, + / - / delete in the
\* order summary) takes the cart quantity over the stock; an Add click adds
\* at most the remaining amount, and the quantity it uses is never over the
\* remaining stock at click time.
C4_CartWithinStock ==
    [][ /\ \A id \in DOMAIN products :
              (products[id] # NULL /\ inCartQty(items, id) <= products[id])
                  => inCartQty(items', id) <= products[id]
        /\ (lastAdd' # NoCall /\ lastAdd'.remaining # NULL) =>
              /\ lastAdd'.desired <= lastAdd'.remaining
              /\ lastAdd'.before + lastAdd'.desired <= products'[lastAdd'.id]
      ]_vars

\* C4 witness: an Add click filled the cart up to the product's stock after
\* an earlier Add had left the staged quantity over the remaining stock.
C4_Witness ==
    /\ lastAdd # NoCall
    /\ lastAdd.remaining # NULL
    /\ lastAdd.before >= 1
    /\ lastAdd.desired = lastAdd.remaining
    /\ inCartQty(items, lastAdd.id) = products[lastAdd.id]

\* ------------------------------------------------------------------- Spec
\* One visit of the checkout page, from mount to unmount, over the cart the
\* shopper brought along.
CheckoutInitCarts == {<<Line("A", 2)>>}

Init ==
    /\ items \in CheckoutInitCarts
    /\ Persisted
    /\ ShopIdle
    /\ mounted = TRUE
    /\ windowReq = TRUE
    /\ windowState = FALSE
    /\ submitting = FALSE
    /\ stockIssuesById = EmptyMap
    /\ timers = arm({}, items)
    /\ reqSeq = 0
    /\ checks = {}
    /\ orderReq = {}
    /\ last = Quiet
    /\ AdminIdle
    /\ PageIdle
    /\ PinIdle

\* unmounting destroys the component state and runs the effect cleanup
\* (clearTimeout); answers to the debounced checks then set nothing
Unmounted ==
    /\ mounted' = FALSE
    /\ windowState' = FALSE
    /\ submitting' = FALSE
    /\ stockIssuesById' = EmptyMap
    /\ timers' = cleanup(timers, Timer(items))

\* loadWindow(): setWindowState(wRes.data), or {open: false} on failure
WindowResponse(open) ==
    /\ windowReq
    /\ windowReq' = FALSE
    /\ windowState' = IF mounted THEN open ELSE windowState
    /\ last' = Quiet
    /\ UNCHANGED <<cartVars, shopVars, adminVars, pageVars, pinVars, mounted, submitting, stockIssuesById,
                   timers, reqSeq, checks, orderReq>>

\* a debounce timer fires: runStockCheck() of the render that armed it, up
\* to its await
TimerFire ==
    \E t \in timers :
        /\ mounted
        /\ timers' = timers \ {t}
        /\ IF Len(t.items) = 0
           THEN /\ stockIssuesById' = EmptyMap
                /\ last' = Last("emptyCart", Ok, <<>>, stockIssuesById, reqSeq, "none")
                /\ UNCHANGED <<reqSeq, checks>>
           ELSE /\ reqSeq < MaxReq
                /\ last' = Quiet
                /\ reqSeq' = reqSeq + 1
                /\ checks' = checks \cup
                      {[seq |-> reqSeq + 1, items |-> t.items, by |-> "debounce"]}
                /\ UNCHANGED stockIssuesById
        /\ UNCHANGED <<cartVars, shopVars, adminVars, pageVars, pinVars, mounted, windowReq, windowState, submitting, orderReq>>

\* a cart change re-renders the page; the effect re-runs (clearTimeout, then
\* setTimeout) only when its dependency string changed
EditTo(next) ==
    /\ mounted
    /\ LineQtysWithin(next)
    /\ setItems(next)
    /\ timers' = IF itemsKey(next) # itemsKey(items)
                 THEN arm(cleanup(timers, Timer(items)), next)
                 ELSE timers
    /\ last' = Quiet
    /\ UNCHANGED <<shopVars, adminVars, pageVars, pinVars, mounted, windowReq, windowState, submitting,
                   stockIssuesById, reqSeq, checks, orderReq>>

\* quick summary row: qty = asInt(it.qty, 1)
rowQty(row) == asInt(row.qty, 1)

\* maxIfKnown, or NULL for undefined
maxIfKnown(issuesById, pid) ==
    IF pid \in DOMAIN issuesById
       /\ issuesById[pid].reason = "INSUFFICIENT"
       /\ issuesById[pid].available > 0
    THEN issuesById[pid].available
    ELSE NULL

\* disablePlus
disablePlus(issuesById, row) ==
    IF maxIfKnown(issuesById, row.product.id) # NULL
    THEN rowQty(row) >= maxIfKnown(issuesById, row.product.id)
    ELSE FALSE

\* "-" button: disabled={qty <= 1}; setQty(pid, Math.max(1, qty - 1))
Minus(k) ==
    /\ k \in 1..Len(items)
    /\ ~(rowQty(items[k]) <= 1)
    /\ EditTo(setQty(items, items[k].product.id, Max(1, rowQty(items[k]) - 1)))

\* "+" button: disabled={disablePlus}; setQty(pid, qty + 1)
Plus(k) ==
    /\ k \in 1..Len(items)
    /\ ~disablePlus(stockIssuesById, items[k])
    /\ EditTo(setQty(items, items[k].product.id, rowQty(items[k]) + 1))

\* InputNumber onChange: setQty(pid, asInt(v, 1))
InputQty(k, v) ==
    /\ k \in 1..Len(items)
    /\ EditTo(setQty(items, items[k].product.id, asInt(v, 1)))

\* delete button: remove(pid)
Remove(k) ==
    /\ k \in 1..Len(items)
    /\ EditTo(remove(items, items[k].product.id))

\* Place order (Form onFinish): submit() up to the await of runStockCheck()
SubmitClick ==
    /\ mounted /\ ~submitting
    /\ ~placeOrderDisabled(windowState, items, stockIssuesById)
    /\ IF Len(items) = 0
       THEN /\ last' = Quiet
            /\ UNCHANGED <<submitting, reqSeq, checks>>
       ELSE IF ~windowState
       THEN /\ last' = Last("none", Ok, <<>>, EmptyMap, 0, "error")
            /\ UNCHANGED <<submitting, reqSeq, checks>>
       ELSE /\ reqSeq < MaxReq
            /\ submitting' = TRUE
            /\ reqSeq' = reqSeq + 1
            /\ checks' = checks \cup
                  {[seq |-> reqSeq + 1, items |-> items, by |-> "submit"]}
            /\ last' = Quiet
    /\ UNCHANGED <<cartVars, shopVars, adminVars, pageVars, pinVars, mounted, windowReq, windowState,
                   stockIssuesById, timers, orderReq>>

\* mutant of orderItems: the payload is built from the cart as it is when
\* the pre-check answer arrives
orderItems_Current(closureItems, currentItems) == payloadItems(currentItems)

\* submit(): payload.items is built from the items of the render that
\* called submit, the same closure runStockCheck() read
orderItems(closureItems, currentItems) == payloadItems(closureItems)

\* mutant of postsOrder: submit() ignores the result of the pre-check
postsOrder_Always(resp) == TRUE

\* submit(): after the pre-check, the order is posted only if check.ok
postsOrder(resp) == checkOk(resp)

\* the answer to a stock-check request arrives: the rest of runStockCheck()
\* and, for submit's pre-check, submit() up to its next await
CheckResponse(r, resp) ==
    /\ r \in checks
    /\ checks' = checks \ {r}
    /\ last' = IF mounted
               THEN Last(IF r.by = "submit" THEN "precheck" ELSE "check", resp, items,
                         [id \in (DOMAIN stockIssuesById) \ ReportedIds(resp) |->
                             stockIssuesById[id]], 0, "none")
               ELSE Last("late", resp, items, EmptyMap, 0, "none")
    /\ stockIssuesById' =
          IF mounted THEN checkStored(resp, stockIssuesById) ELSE stockIssuesById
    /\ IF r.by = "submit"
       THEN IF postsOrder(resp)
            THEN /\ orderReq' = {[items |-> orderItems(r.items, items),
                                  checked |-> payloadItems(r.items),
                                  conflict |-> ~checkOk(resp)]}
                 /\ UNCHANGED submitting
            ELSE /\ submitting' = FALSE
                 /\ UNCHANGED orderReq
       ELSE UNCHANGED <<submitting, orderReq>>
    /\ UNCHANGED <<cartVars, shopVars, adminVars, pageVars, pinVars, mounted, windowReq, windowState, timers, reqSeq>>

\* submit() catch: a 409 stores the reported issues, any other failure
\* leaves stockIssuesById alone
orderStored(resp, issuesById) ==
    IF resp.status = 409 THEN IssueMap(resp.issues) ELSE issuesById

\* mutant of orderNote: the generic error toast is raised for a 409 as well
orderNote_Always(resp) == "error"

\* submit() catch: message.error(...) unless the failure is a 409
orderNote(resp) == IF resp.status = 409 THEN "none" ELSE "error"

\* mutant of clearsCart: clear() is reached on every answer
clearsCart_Always(resp) == TRUE

\* submit(): clear() is called after api.post(orders) resolved, and on no
\* other path
clearsCart(resp) == resp.status = 200

\* the answer to POST /api/public/orders arrives: the rest of submit()
OrderResponse(resp) ==
    /\ orderReq # {}
    /\ orderReq' = {}
    /\ IF clearsCart(resp) THEN setItems(clear) ELSE UNCHANGED cartVars
    /\ IF resp.status = 200
       THEN /\ last' = Last("none", Ok, <<>>, EmptyMap, 0, "success")
            /\ Unmounted
            /\ checks' = {}
       ELSE /\ stockIssuesById' =
                  IF mounted THEN orderStored(resp, stockIssuesById) ELSE stockIssuesById
            /\ last' = IF mounted
                       THEN Last("order", resp, items, stockIssuesById, 0, orderNote(resp))
                       ELSE Last("late", resp, items, EmptyMap, 0, orderNote(resp))
            /\ submitting' = FALSE
            /\ UNCHANGED <<mounted, windowState, timers, checks>>
    /\ UNCHANGED <<shopVars, adminVars, pageVars, pinVars, windowReq, reqSeq>>

\* "Back to shop" (or any other navigation) while the page is shown
Leave ==
    /\ mounted
    /\ Unmounted
    /\ checks' = {r \in checks : r.by = "submit"}
    /\ last' = Quiet
    /\ UNCHANGED <<cartVars, shopVars, adminVars, pageVars, pinVars, windowReq, reqSeq, orderReq>>

Next ==
    \/ \E open \in BOOLEAN : WindowResponse(open)
    \/ TimerFire
    \/ \E k \in 1..Cardinality(Products) : Minus(k)
    \/ \E k \in 1..Cardinality(Products) : Plus(k)
    \/ \E k \in 1..Cardinality(Products), v \in {NULL} \cup (MinQty..MaxLineQty) : InputQty(k, v)
    \/ \E k \in 1..Cardinality(Products) : Remove(k)
    \/ SubmitClick
    \/ \E r \in checks, resp \in Responses : CheckResponse(r, resp)
    \/ \E resp \in Responses : OrderResponse(resp)
    \/ Leave

Spec == Init /\ [][Next]_vars

TypeOK ==
    /\ \A k \in 1..Len(items) : items[k].qty \in 1..MaxLineQty
    /\ reqSeq \in 0..MaxReq
    /\ Cardinality(checks) <= MaxReq
    /\ Cardinality(orderReq) <= 1

\* issuesById holds exactly one entry per product id reported by resp, and
\* each entry is one the answer reported for that id
OneEntryPerReported(issuesById, resp) ==
    /\ DOMAIN issuesById = ReportedIds(resp)
    /\ \A id \in DOMAIN issuesById :
          /\ issuesById[id].productId = id
          /\ \E k \in 1..Len(resp.issues) : resp.issues[k] = issuesById[id]

\* a step in which the page stays mounted and a stock-check request r is answered
Answered(r) == mounted /\ mounted' /\ r \in checks /\ r \notin checks'

\* C2: only the most recent stock-check request's result is applied: the
\* answer to a request that is no longer the newest one issued never changes
\* the StockIssue state.
C2_OnlyLatestApplied ==
    [][\A r \in checks :
          (Answered(r) /\ stockIssuesById' # stockIssuesById) => r.seq = reqSeq]_vars

\* C5: a stock conflict blocks order submission: whenever the StockIssue
\* state holds an issue the place-order control is disabled, and no order
\* request is issued by a step that leaves the page showing an issue.
C5_ConflictBlocksOrder ==
    [][ /\ (mounted' /\ hasBlockingIssues(stockIssuesById'))
            => placeOrderDisabled(windowState', items', stockIssuesById')
        /\ (mounted' /\ orderReq = {} /\ orderReq' # {})
            => ~hasBlockingIssues(stockIssuesById')
      ]_vars

\* C6: every order request issued by submit was preceded in the same submit
\* call by a stock check over the same lines that did not report a conflict
\* (so a conflict answer sends no order); submit issues its stock check only
\* with a non-empty cart, and never posts an empty order; with the order
\* window closed no submit request exists at all.
C6_OrderAfterCleanCheck ==
    /\ \A o \in orderReq :
          /\ o.items = o.checked
          /\ ~o.conflict
          /\ Len(o.items) > 0
    /\ \A r \in checks : r.by = "submit" => Len(r.items) > 0
    /\ (mounted /\ ~windowState) =>
          (orderReq = {} /\ \A r \in checks : r.by # "submit")
    /\ (last.kind = "precheck" /\ last.resp.status = 409) => orderReq = {}

\* C6 witness: an order request is in flight for the cart as it was when
\* submit was clicked; the cart has been edited since.
C6_Witness ==
    \E o \in orderReq :
        /\ Len(o.items) > 0
        /\ o.items = o.checked
        /\ o.items # payloadItems(items)

\* C7: runStockCheck: a success answer empties the StockIssue state; a 409
\* answer replaces it by exactly one entry per reported product id (nothing
\* of the earlier state survives); with an empty cart the state is cleared
\* and no request is sent.
C7_CheckStoresAnswer ==
    /\ (last.kind \in {"check", "precheck"} /\ last.resp.status = 200) =>
          stockIssuesById = EmptyMap
    /\ (last.kind \in {"check", "precheck"} /\ last.resp.status = 409) =>
          OneEntryPerReported(stockIssuesById, last.resp)
    /\ last.kind = "emptyCart" =>
          (stockIssuesById = EmptyMap /\ reqSeq = last.seq)

\* C7 witness: a 409 answer naming only B has just been stored over a state
\* that held an issue for A; only B's issue is left.
C7_Witness ==
    /\ last.kind = "check" /\ last.resp.status = 409
    /\ DOMAIN last.issues = {"A"}
    /\ DOMAIN stockIssuesById = {"B"}

\* C8: a stock check that fails with anything other than a 409 leaves no
\* known issues: the check returns ok (submit goes on to post the order) and
\* the StockIssue state is empty afterwards.
C8_FailureMeansNoIssues ==
    [][\A r \in checks :
          (Answered(r) /\ CheckResponse(r, Failure)) =>
              /\ stockIssuesById' = EmptyMap
              /\ r.by = "submit" => orderReq' # {}]_vars

\* C9: a 409 answer to the order request replaces the StockIssue state by
\* one entry per reported product id, raises no error notification, leaves
\* the cart unchanged and resets submitting; any other failed answer raises
\* one error notification and leaves cart and StockIssue state unchanged.
C9_OrderFailureHandling ==
    last.kind = "order" =>
        /\ items = last.items
        /\ ~submitting
        /\ last.resp.status = 409 =>
              /\ OneEntryPerReported(stockIssuesById, last.resp)
              /\ last.note = "none"
        /\ last.resp.status # 409 =>
              /\ last.note = "error"
              /\ stockIssuesById = last.issues

\* C9 witness: the order request was rejected with a 409 naming A: the issue
\* is shown, nothing was notified, the cart is intact.
C9_Witness ==
    /\ last.kind = "order" /\ last.resp.status = 409
    /\ DOMAIN stockIssuesById = {"A"}
    /\ last.issues = EmptyMap
    /\ Len(items) > 0

\* C17: the cart is cleared exactly when order placement succeeds: after a
\* successful answer to the order request the cart is empty; when submit
\* stops on a conflict reported by its pre-check, or the order request
\* fails for any reason, submit leaves the cart lines exactly as they were.
C17_ClearedOnlyOnSuccess ==
    /\ last.note = "success" => items = <<>>
    /\ (last.kind \in {"precheck", "order", "late"} /\ last.note # "success") =>
          items = last.items

\* C17 witness: the order request failed after the shopper had reduced the
\* quantity while it was in flight; the cart is as the shopper left it.
C17_Witness ==
    /\ last.kind = "order" /\ last.resp.status = 500
    /\ items = <<Line("A", 1)>>

\* a step in which a debounce timer fires
Fired == mounted /\ mounted' /\ timers # {} /\ timers' = {}

\* a step of the shown page that changes the cart's contents
Edited == mounted /\ mounted' /\ itemsKey(items') # itemsKey(items)

\* the stock-check requests a step issues
Issued == {r \in checks' : r.seq > reqSeq}

\* what holds of the debounce whatever the cart: at most one timer is
\* pending, it is the one armed for the current cart contents, and none is
\* pending once the page is torn down
OneTimerForCurrentCart ==
    /\ Cardinality(timers) <= 1
    /\ \A t \in timers : t.items = items
    /\ ~mounted => timers = {}

\* C25 (as claimed): at most one debounce timer is pending, a cart change or
\* teardown cancels it, a cart change issues no request and arms the timer
\* anew, and the timer's firing issues exactly one stock-check request,
\* which carries the cart contents after the last edit.
C25_DebounceOneRequest ==
    [][ /\ OneTimerForCurrentCart /\ OneTimerForCurrentCart'
        /\ Edited => (Issued = {} /\ timers' = {Timer(items')})
        /\ Fired =>
              /\ Cardinality(Issued) = 1
              /\ \A r \in Issued : r.items = items /\ r.by = "debounce"
      ]_vars

\* C25 (amended): as claimed, but the firing issues exactly one request
\* when the cart is not empty after the last edit and none when it is empty
\* (the check then only clears the StockIssue state).
C25_DebounceAtMostOneRequest ==
    [][ /\ OneTimerForCurrentCart /\ OneTimerForCurrentCart'
        /\ Edited => (Issued = {} /\ timers' = {Timer(items')})
        /\ Fired =>
              /\ Cardinality(Issued) = (IF Len(items) = 0 THEN 0 ELSE 1)
              /\ \A r \in Issued : r.items = items /\ r.by = "debounce"
      ]_vars

\* C25 witness: the one request issued so far is the debounced one, sent
\* after the cart was edited from A x2 to A x1 while the timer was pending;
\* it carries A x1 and no timer is left.
C25_Witness ==
    /\ mounted /\ timers = {} /\ reqSeq = 1
    /\ items = <<Line("A", 1)>>
    /\ checks = {[seq |-> 1, items |-> <<Line("A", 1)>>, by |-> "debounce"]}

\* C29: no cart edit is lost by submission: when the order request succeeds
\* and the cart is cleared, the lines the request carried (and the pre-check
\* covered) are the lines the cart holds at that moment.
C29_NoEditLostBySubmit ==
    [][\A o \in orderReq :
          (orderReq' = {} /\ last'.note = "success") =>
              (o.items = payloadItems(items) /\ o.checked = payloadItems(items))]_vars

\* C10: a StockIssue does not outlive a cart mutation: after any cart
\* mutation no issue that was present before it is still present.
C10_IssueGoneAfterMutation ==
    [][(mounted /\ mounted' /\ items' # items) =>
          \A id \in DOMAIN stockIssuesById : id \notin DOMAIN stockIssuesById']_vars

\* --------------------------------------------------------------- SpecLive
\* The checkout page against a backend that answers every stock-check
\* request with what its stock says about the request's lines: 409 with one
\* issue per line asking for more than is available, 200 otherwise.
BackendAnswer(reqItems) ==
    LET short(i) == i.qty > AvailableOf(i.productId)
        lines == SelectSeq(reqItems, short)
    IN  IF Len(lines) = 0 THEN Ok
        ELSE Conflict([k \in 1..Len(lines) |->
                 [productId |-> lines[k].productId,
                  available |-> AvailableOf(lines[k].productId),
                  reason |-> "INSUFFICIENT"]])

\* the answer to a stock-check request arrives
AnswerCheck == \E r \in checks : CheckResponse(r, BackendAnswer(payloadItems(r.items)))

\* the answer to the order request arrives: the backend's verdict on the
\* ordered lines, or a failure of the placement itself
AnswerOrder ==
    \E o \in orderReq : \E resp \in {BackendAnswer(o.items), Failure} : OrderResponse(resp)

NextLive ==
    \/ \E open \in BOOLEAN : WindowResponse(open)
    \/ TimerFire
    \/ \E k \in 1..Cardinality(Products) : Minus(k)
    \/ \E k \in 1..Cardinality(Products) : Plus(k)
    \/ \E k \in 1..Cardinality(Products), v \in {NULL} \cup (MinQty..MaxLineQty) : InputQty(k, v)
    \/ \E k \in 1..Cardinality(Products) : Remove(k)
    \/ SubmitClick
    \/ AnswerCheck
    \/ AnswerOrder
    \/ Leave

\* the debounce timer fires once its quiet period is over, and every
\* stock-check request is answered
SpecLive ==
    /\ Init
    /\ [][NextLive]_vars
    /\ WF_vars(TimerFire)
    /\ WF_vars(AnswerCheck)

\* the page shows a reported conflict for a cart the backend cannot serve
ShownConflict ==
    /\ mounted
    /\ hasBlockingIssues(stockIssuesById)
    /\ BackendAnswer(payloadItems(items)).status = 409

\* the cart is non-empty and the backend has no conflict to report for it;
\* the window is open and a pending debounce timer may still send a request
CartSettled ==
    /\ mounted /\ windowState
    /\ Len(items) > 0
    /\ BackendAnswer(payloadItems(items)) = Ok
    /\ timers # {} => reqSeq < MaxReq

Unblocked ==
    /\ stockIssuesById = EmptyMap
    /\ ~placeOrderDisabled(windowState, items, stockIssuesById)

\* C11: after a reported stock conflict, once the shopper has changed the
\* cart so that the backend has no conflict to report and leaves it so, the
\* StockIssue state eventually becomes empty and stays empty and the
\* place-order control is enabled (every request being answered).
C11_EventuallyUnblocked ==
    (<>ShownConflict /\ <>[]CartSettled) => <>[]Unblocked

\* ------------------------------------------- SpecOrders, SpecDashboard
\* The admin page after loadAll(): the orders tab normalizes the fetched
\* list and weights are entered there (SpecOrders); the dashboard tab
\* aggregates the fetched list under its filters (SpecDashboard).
InitAdmin ==
    /\ items = <<>>
    /\ Persisted
    /\ ShopIdle
    /\ CheckoutIdle
    /\ adminOrders \in FetchedLists
    /\ displayOrders = normalize(adminOrders)
    /\ dash = NoDash
    /\ PageIdle
    /\ PinIdle

\* the dashboard tab renders (again) under filter f
ShowDashboard(f) ==
    /\ dash' = Dashboard(filteredOrders(adminOrders, f), f)
    /\ UNCHANGED <<cartVars, shopVars, checkoutVars, adminOrders, displayOrders, pageVars, pinVars>>

\* the kg item with this id, as the expanded row shows it
kgItemShown(itemId) ==
    \E k \in 1..Len(displayOrders) : \E j \in 1..Len(displayOrders[k].items) :
        /\ displayOrders[k].items[j].id = itemId
        /\ isKgItem(displayOrders[k].items[j])

\* updateKgWeight(itemId, weightKg) after the PUT succeeded: the displayed
\* orders are patched and recomputed
UpdateKgWeight(itemId, weightKg) ==
    /\ kgItemShown(itemId)
    /\ displayOrders' = patchWeight(displayOrders, itemId, weightKg)
    /\ UNCHANGED <<cartVars, shopVars, checkoutVars, adminOrders, dash, pageVars, pinVars>>

\* what the backend holds once the weights entered so far are stored: the
\* fetched orders with those weights (its own money figures as they were)
serverOrders ==
    [k \in 1..Len(adminOrders) |->
        [adminOrders[k] EXCEPT !.items =
            [j \in 1..Len(adminOrders[k].items) |->
                [adminOrders[k].items[j] EXCEPT
                    !.weightKg = displayOrders[k].items[j].weightKg]]]]

\* onReload(): loadAll() answered; the normalize effect runs over the new
\* list and the dashboard memos are recomputed
Reloaded ==
    /\ serverOrders # adminOrders
    /\ adminOrders' = serverOrders
    /\ displayOrders' = normalize(serverOrders)
    /\ dash' = IF dash = NoDash THEN NoDash
               ELSE Dashboard(filteredOrders(serverOrders, dash.filter), dash.filter)
    /\ UNCHANGED <<cartVars, shopVars, checkoutVars, pageVars, pinVars>>

NextOrders ==
    \/ \E k \in 1..MaxOrders, j \in 1..2, w \in EnteredWeights : UpdateKgWeight(<<k, j>>, w)
    \/ Reloaded

SpecOrders == InitAdmin /\ [][NextOrders]_vars

NextDashboard == \E f \in Filters : ShowDashboard(f)

SpecDashboard == InitAdmin /\ [][NextDashboard]_vars

\* C18: in every displayed order each pack item's line total is unitPrice x
\* quantity, each kg item's line total is unitPrice x measured weight when a
\* weight is present and 0 when it is absent, and subtotal and total are
\* both the sum of the line totals; with no kg item the total is the sum of
\* unitPrice x quantity.
C18_RecomputedTotals ==
    \A k \in 1..Len(displayOrders) :
        LET o == displayOrders[k]
            J == 1..Len(o.items)
        IN  /\ \A j \in J :
                  /\ o.items[j].unit # "kg" =>
                        o.items[j].lineTotal = o.items[j].unitPrice * o.items[j].qty
                  /\ (o.items[j].unit = "kg" /\ o.items[j].weightKg \notin {NULL, EMPTY}) =>
                        o.items[j].lineTotal = o.items[j].unitPrice * o.items[j].weightKg
                  /\ (o.items[j].unit = "kg" /\ o.items[j].weightKg \in {NULL, EMPTY}) =>
                        o.items[j].lineTotal = 0
            /\ o.subtotal = SumSeq([j \in J |-> o.items[j].lineTotal])
            /\ o.total = o.subtotal
            /\ (\A j \in J : o.items[j].unit # "kg") =>
                  o.total = SumSeq([j \in J |-> o.items[j].unitPrice * o.items[j].qty])

\* C18 witness: a weight of 2 kg was entered for the kg item of an order
\* fetched without it; the order shows 10 x 2 for the packs, 4 x 2 for the
\* weighed item and 28 in total.
C18_Witness ==
    /\ Len(displayOrders) >= 1
    /\ Len(displayOrders[1].items) = 2
    /\ adminOrders[1].items[2].weightKg = NULL
    /\ displayOrders[1].items[2].weightKg = 2
    /\ displayOrders[1].items[1].lineTotal = 20
    /\ displayOrders[1].items[2].lineTotal = 8
    /\ displayOrders[1].total = 28

\* C19: an order with a kg item without a recorded weight shows no partial
\* money figure as its total in the orders table: the Total cell is a dash
\* or zero.
C19_NoPartialTotal ==
    \A k \in 1..Len(displayOrders) :
        (\E j \in 1..Len(displayOrders[k].items) :
            /\ displayOrders[k].items[j].unit = "kg"
            /\ displayOrders[k].items[j].weightKg \in {NULL, EMPTY})
        => \/ moneyShown(displayOrders[k].total).text = "dash"
           \/ moneyShown(displayOrders[k].total).amount = 0

\* the orders of F but the k-th
Without(F, k) == SubSeq(F, 1, k - 1) \o SubSeq(F, k + 1, Len(F))

\* the figure of an aggregate row, 0 when there is no such row
RowOf(rows, key, field) == IF key \in DOMAIN rows THEN rows[key][field] ELSE 0

\* every kg item of the order has a weight that is neither null nor ""
AllWeighed(o) ==
    \A j \in 1..Len(o.items) :
        o.items[j].unit = "kg" => o.items[j].weightKg \notin {NULL, EMPTY}

\* C20: each filtered order brings its total to revenue, to its day's
\* revenue and to its customer's spend, and its items' line totals to their
\* products' revenue, if and only if all its kg items are weighed, and
\* nothing when they are not; it always counts as one order and with its
\* item quantities; pendingWeights is the number of filtered orders minus
\* the number of orders with complete weights.
C20_MoneyOnlyWhenComplete ==
    dash # NoDash =>
        LET F == dash.filtered
        IN  /\ F = filteredOrders(adminOrders, dash.filter)
            /\ dash.pendingWeights =
                  Len(F) - Cardinality({k \in 1..Len(F) : AllWeighed(F[k])})
            /\ \A k \in 1..Len(F) :
                  LET o == F[k]
                      rest == Dashboard(Without(F, k), dash.filter)
                      money == IF AllWeighed(o) THEN o.total ELSE 0
                      qtyOf(name) == SumSeq([j \in 1..Len(o.items) |->
                          IF o.items[j].productName = name THEN o.items[j].qty ELSE 0])
                      lineOf(name) == SumSeq([j \in 1..Len(o.items) |->
                          IF o.items[j].productName = name /\ AllWeighed(o)
                          THEN o.items[j].lineTotal ELSE 0])
                  IN  /\ dash.revenue = rest.revenue + money
                      /\ dash.salesSeries[o.day].revenue =
                            RowOf(rest.salesSeries, o.day, "revenue") + money
                      /\ dash.topCustomers[o.customerName].spend =
                            RowOf(rest.topCustomers, o.customerName, "spend") + money
                      /\ dash.totalOrders = rest.totalOrders + 1
                      /\ dash.salesSeries[o.day].orders =
                            RowOf(rest.salesSeries, o.day, "orders") + 1
                      /\ dash.topCustomers[o.customerName].orders =
                            RowOf(rest.topCustomers, o.customerName, "orders") + 1
                      /\ dash.itemsSold = rest.itemsSold
                            + SumSeq([j \in 1..Len(o.items) |-> o.items[j].qty])
                      /\ \A name \in DOMAIN dash.topProducts :
                            /\ dash.topProducts[name].qty =
                                  RowOf(rest.topProducts, name, "qty") + qtyOf(name)
                            /\ dash.topProducts[name].revenue =
                                  RowOf(rest.topProducts, name, "revenue") + lineOf(name)

\* C20 witness: two orders of one customer and day are shown; the first has
\* an unweighed kg item, the second is complete: revenue, the day's revenue
\* and the customer's spend are the second order's total, one order is
\* pending, both are counted.
C20_Witness ==
    /\ dash # NoDash
    /\ Len(dash.filtered) = 2
    /\ ~AllWeighed(dash.filtered[1])
    /\ AllWeighed(dash.filtered[2])
    /\ \E j \in 1..Len(dash.filtered[2].items) : dash.filtered[2].items[j].unit = "kg"
    /\ dash.revenue = dash.filtered[2].total
    /\ dash.topCustomers["c1"].spend = dash.filtered[2].total
    /\ dash.topCustomers["c1"].orders = 2
    /\ dash.pendingWeights = 1
    /\ dash.totalOrders = 2

\* ---------------------------------------------------- SpecLoad, SpecWeights
\* The admin page with its requests in flight: the mount effect's loadAll()
\* and loadReport() (SpecLoad), and weights entered on the loaded page, each
\* followed by its reload (SpecWeights).
\* loadAll() up to its first await: setLoading(true), ensureAuth() sends
\* GET /api/admin/me
startLoadAll ==
    /\ loading' = TRUE
    /\ loadSeq' = loadSeq + 1
    /\ loads' = loads \cup {LoadCall(loadSeq + 1, "me", {}, NothingGot)}

\* a tab calls onReload() after one of its own changes
OnReload ==
    /\ route = "dashboard"
    /\ loadSeq < MaxLoads
    /\ startLoadAll
    /\ adminLast' = NoAdminLast
    /\ UNCHANGED <<cartVars, shopVars, checkoutVars, adminVars, pinVars, isAuthed, route,
                   lists, report, reportReq, puts, putSeq, server, entered, sessionOk,
                   requested>>

\* GET /api/admin/me is answered: the rest of ensureAuth() and loadAll() up
\* to Promise.all; a failed check navigates to the login route, which
\* unmounts the page (what its requests still answer reaches no state)
MeResponse(c, ok) ==
    /\ c \in loads
    /\ c.stage = "me"
    /\ IF ok
       THEN /\ isAuthed' = TRUE
            /\ sessionOk' = TRUE
            /\ loads' = (loads \ {c}) \cup {LoadCall(c.id, "fetch", FetchNames, NothingGot)}
            /\ requested' = requested \cup
                  {[name |-> nm, afterAuth |-> TRUE] : nm \in FetchNames}
            /\ adminLast' = NoAdminLast
            /\ UNCHANGED <<loading, route, puts, reportReq>>
       ELSE /\ isAuthed' = FALSE
            /\ route' = "login"
            /\ loading' = FALSE
            /\ loads' = {}
            /\ puts' = {}
            /\ reportReq' = FALSE
            /\ adminLast' = AdminLast("authFailed", c.id, NoItem, NULL, 0)
            /\ UNCHANGED <<sessionOk, requested>>
    /\ UNCHANGED <<cartVars, shopVars, checkoutVars, adminVars, pinVars, lists, report,
                   loadSeq, putSeq, server, entered>>

\* one of the four fetches of call c is answered.  A failure rejects
\* Promise.all: catch (message.error) and finally (setLoading(false)); the
\* last success resolves it: the four setters, then finally.  setOrders
\* gives OrdersTab a new orders prop, so its normalize effect runs.
FetchResponse(c, name, ok) ==
    LET got == [c.got EXCEPT ![name] = Fetched(name, c.id, server)]
        left == c.pending \ {name}
    IN  /\ c \in loads
        /\ c.stage = "fetch"
        /\ name \in c.pending
        /\ IF ok
           THEN /\ IF loadApplies(left)
                   THEN /\ lists' = [nm \in DOMAIN lists |->
                                        IF nm \in left THEN lists[nm] ELSE got[nm]]
                        /\ IF "orders" \in left
                           THEN UNCHANGED <<adminOrders, displayOrders>>
                           ELSE /\ adminOrders' = got.orders
                                /\ displayOrders' = normalize(got.orders)
                   ELSE UNCHANGED <<adminOrders, displayOrders, lists>>
                /\ IF left = {}
                   THEN /\ loads' = loads \ {c}
                        /\ loading' = FALSE
                        /\ adminLast' = AdminLast("loaded", c.id, NoItem, NULL, 0)
                   ELSE /\ loads' = (loads \ {c}) \cup {LoadCall(c.id, "fetch", left, got)}
                        /\ adminLast' = NoAdminLast
                        /\ UNCHANGED loading
           ELSE /\ loads' = loads \ {c}
                /\ loading' = FALSE
                /\ adminLast' = AdminLast("loadFailed", c.id, NoItem, NULL, 1)
                /\ UNCHANGED <<adminOrders, displayOrders, lists>>
        /\ UNCHANGED <<cartVars, shopVars, checkoutVars, dash, pinVars, isAuthed, route, report,
                       loadSeq, reportReq, puts, putSeq, server, entered, sessionOk,
                       requested>>

\* GET /api/admin/reports/summary is answered: setReport(res.data), or
\* setReport(null)
ReportResponse(ok) ==
    /\ reportReq
    /\ reportReq' = FALSE
    /\ report' = IF ok THEN 1 ELSE 0
    /\ adminLast' = NoAdminLast
    /\ UNCHANGED <<cartVars, shopVars, checkoutVars, adminVars, pinVars, loading, isAuthed,
                   route, lists, loads, loadSeq, puts, putSeq, server, entered, sessionOk,
                   requested>>

\* the Weight (kg) input's onChange: updateKgWeight(it.id, v) up to its
\* await (the PUT is sent)
EnterWeight(itemId, weightKg) ==
    /\ route = "dashboard"
    /\ kgItemShown(itemId)
    /\ putSeq < MaxEntries
    /\ putSeq' = putSeq + 1
    /\ puts' = puts \cup {WeightPut(putSeq + 1, itemId, weightKg, FALSE)}
    /\ entered' = [id \in (DOMAIN entered) \cup {itemId} |->
                      IF id = itemId THEN weightKg ELSE entered[id]]
    /\ adminLast' = NoAdminLast
    /\ UNCHANGED <<cartVars, shopVars, checkoutVars, adminVars, pinVars, loading, isAuthed,
                   route, lists, report, loads, loadSeq, reportReq, server, sessionOk,
                   requested>>

\* the backend stores the weight of a request
StoreWeight(p) ==
    /\ p \in puts
    /\ ~p.stored
    /\ server' = storeWeight(server, p.itemId, p.weightKg)
    /\ puts' = (puts \ {p}) \cup {WeightPut(p.seq, p.itemId, p.weightKg, TRUE)}
    /\ adminLast' = NoAdminLast
    /\ UNCHANGED <<cartVars, shopVars, checkoutVars, adminVars, pinVars, loading, isAuthed,
                   route, lists, report, loads, loadSeq, reportReq, putSeq, entered,
                   sessionOk, requested>>

\* the weight request is answered: the rest of updateKgWeight().  Success
\* (the weight was stored): the displayed orders are patched and
\* recomputed, then onReload(); failure: message.error
WeightResponse(p, ok) ==
    /\ p \in puts
    /\ p.stored = ok
    /\ puts' = puts \ {p}
    /\ IF ok
       THEN /\ displayOrders' = patchWeight(displayOrders, p.itemId, p.weightKg)
            /\ startLoadAll
            /\ adminLast' = AdminLast("weightOk", loadSeq + 1, p.itemId, p.weightKg, 0)
       ELSE /\ adminLast' = AdminLast("weightFailed", 0, p.itemId, p.weightKg, 1)
            /\ UNCHANGED <<displayOrders, loading, loadSeq, loads>>
    /\ UNCHANGED <<cartVars, shopVars, checkoutVars, adminOrders, dash, pinVars, isAuthed,
                   route, lists, report, reportReq, putSeq, server, entered, sessionOk,
                   requested>>

\* the orders the backend holds when the page is opened
LoadServerLists ==
    {<<>>, <<AdminOrderOf(1, <<PackItem(1), KgItem(NULL)>>)>>,
     <<AdminOrderOf(1, <<PackItem(2)>>), AdminOrderOf(2, <<KgItem(1)>>)>>}

\* the page has just been mounted: the mount effect has called loadAll()
\* and loadReport()
InitLoad ==
    /\ items = <<>>
    /\ Persisted
    /\ ShopIdle
    /\ CheckoutIdle
    /\ AdminIdle
    /\ PinIdle
    /\ loading = TRUE
    /\ isAuthed = FALSE
    /\ route = "dashboard"
    /\ lists = NoLists
    /\ report = 0
    /\ loads = {LoadCall(1, "me", {}, NothingGot)}
    /\ loadSeq = 1
    /\ reportReq = TRUE
    /\ puts = {}
    /\ putSeq = 0
    /\ server \in LoadServerLists
    /\ entered = EmptyMap
    /\ sessionOk = FALSE
    /\ requested = {[name |-> "report", afterAuth |-> FALSE]}
    /\ adminLast = NoAdminLast

NextLoad ==
    \/ \E c \in loads, ok \in BOOLEAN : MeResponse(c, ok)
    \/ \E c \in loads, name \in FetchNames, ok \in BOOLEAN : FetchResponse(c, name, ok)
    \/ \E ok \in BOOLEAN : ReportResponse(ok)
    \/ OnReload

SpecLoad == InitLoad /\ [][NextLoad]_vars

\* the call the last handler was about is over
CallOver == \A c \in loads : c.id # adminLast.call

\* C27: loadAll() updates products, orders, windows and categories only
\* when all four fetches have succeeded (and then all four, with what this
\* call fetched); when a fetch fails none of the four lists changes,
\* whichever fetches were answered before, the failure is reported exactly
\* once and the call is over; loading is false at the end of every path:
\* success, fetch failure, failed session check.
C27_BatchLoad ==
    [][ /\ (adminOrders' # adminOrders \/ lists' # lists) => adminLast'.kind = "loaded"
        /\ adminLast'.kind = "loaded" =>
              /\ \E c \in loads :
                    /\ c.id = adminLast'.call
                    /\ c.stage = "fetch"
                    /\ Cardinality(c.pending) = 1
              /\ \A nm \in DOMAIN lists' : lists'[nm] = adminLast'.call
              /\ adminOrders' = server
              /\ adminLast'.errors = 0
              /\ ~loading'
              /\ CallOver'
        /\ adminLast'.kind = "loadFailed" =>
              /\ adminOrders' = adminOrders
              /\ lists' = lists
              /\ displayOrders' = displayOrders
              /\ adminLast'.errors = 1
              /\ ~loading'
              /\ CallOver'
        /\ adminLast'.kind = "authFailed" =>
              /\ adminOrders' = adminOrders
              /\ lists' = lists
              /\ adminLast'.errors = 0
              /\ ~loading'
              /\ CallOver'
      ]_vars

\* C27 witness: the second loadAll() failed on one fetch; the page still
\* shows the four lists of the first call, the failure was reported once
\* and nothing is loading.
C27_Witness ==
    /\ adminLast.kind = "loadFailed"
    /\ adminLast.call = 2
    /\ adminLast.errors = 1
    /\ lists = [products |-> 1, windows |-> 1, categories |-> 1]
    /\ adminOrders = server
    /\ Len(adminOrders) > 0
    /\ ~loading
    /\ loads = {}

\* C28: when the session check fails the auth flag is false and the login
\* route is shown; and every admin data request (products, orders, windows,
\* categories, report summary) is issued after a session check has
\* succeeded.
C28_SessionGate ==
    /\ adminLast.kind = "authFailed" => (~isAuthed /\ route = "login")
    /\ \A r \in requested : r.afterAuth

\* the orders of the loaded page on which weights are entered
WeighedLists ==
    {<<AdminOrderOf(1, <<PackItem(1), KgItem(NULL)>>)>>,
     <<AdminOrderOf(1, <<KgItem(NULL), KgItem(NULL)>>)>>}

\* the values typed into a weight input: cleared, one kilogram, the largest
TypedWeights == {NULL, 1, MaxWeight}

\* the page is loaded: the session check and the four fetches of the mount
\* effect's loadAll() have succeeded
InitWeights ==
    /\ items = <<>>
    /\ Persisted
    /\ ShopIdle
    /\ CheckoutIdle
    /\ PinIdle
    /\ server \in WeighedLists
    /\ adminOrders = server
    /\ displayOrders = normalize(server)
    /\ dash = NoDash
    /\ loading = FALSE
    /\ isAuthed = TRUE
    /\ route = "dashboard"
    /\ lists = [products |-> 0, windows |-> 0, categories |-> 0]
    /\ report = 0
    /\ loads = {}
    /\ loadSeq = 0
    /\ reportReq = FALSE
    /\ puts = {}
    /\ putSeq = 0
    /\ entered = EmptyMap
    /\ sessionOk = TRUE
    /\ requested = {}
    /\ adminLast = NoAdminLast

\* the fetch of a call that is answered next when the backend answers the
\* fetches of a call one after the other, the orders first
NextFetch(c) ==
    IF "orders" \in c.pending THEN "orders"
    ELSE IF "products" \in c.pending THEN "products"
    ELSE IF "windows" \in c.pending THEN "windows"
    ELSE "categories"

\* the backend answers the session check and every fetch of a reload
NextWeights ==
    \/ \E k \in 1..MaxOrders, j \in 1..2, w \in TypedWeights : EnterWeight(<<k, j>>, w)
    \/ \E p \in puts : StoreWeight(p)
    \/ \E p \in puts, ok \in BOOLEAN : WeightResponse(p, ok)
    \/ \E c \in loads : MeResponse(c, TRUE)
    \/ \E c \in loads : FetchResponse(c, NextFetch(c), TRUE)

SpecWeights == InitWeights /\ [][NextWeights]_vars

\* C21: once a reload has completed, every order of the orders view
\* carries the server's data: the server's weights, its order total and its
\* line totals; nothing computed locally is shown.
C21_ReloadShowsServerData ==
    adminLast.kind = "loaded" =>
        /\ Len(displayOrders) = Len(adminOrders)
        /\ \A k \in 1..Len(displayOrders) :
              /\ displayOrders[k].total = adminOrders[k].total
              /\ \A j \in 1..Len(displayOrders[k].items) :
                    /\ displayOrders[k].items[j].weightKg = adminOrders[k].items[j].weightKg
                    /\ displayOrders[k].items[j].lineTotal = adminOrders[k].items[j].lineTotal

\* the line total of an item priced by a weight
PricedBy(it, weightKg) == IF weightKg = NULL THEN 0 ELSE it.unitPrice * weightKg

\* C26: when the weight request succeeds the displayed order shows the new
\* weight, that item's line total and the order total recomputed from it,
\* while the reload it triggers is still awaiting its first answer, and the
\* order is weights-complete exactly when every kg item has a weight; when
\* the request fails the displayed orders are unchanged, one error is
\* raised and no reload is started.
C26_WeightRecorded ==
    /\ adminLast.kind = "weightOk" =>
          LET o == displayOrders[adminLast.itemId[1]]
              before == adminLast.display[adminLast.itemId[1]]
              it == ItemOf(displayOrders, adminLast.itemId)
          IN  /\ it.weightKg = adminLast.weightKg
              /\ it.lineTotal = PricedBy(it, adminLast.weightKg)
              /\ \A j \in 1..Len(o.items) :
                    o.items[j].id # adminLast.itemId =>
                        /\ o.items[j].weightKg = before.items[j].weightKg
                        /\ o.items[j].lineTotal = before.items[j].lineTotal
              /\ o.total = SumSeq([j \in 1..Len(o.items) |-> o.items[j].lineTotal])
              /\ weightsTag(o) = "Complete" <=>
                    \A j \in 1..Len(o.items) :
                        o.items[j].unit = "kg" => o.items[j].weightKg \notin {NULL, EMPTY}
              /\ adminLast.errors = 0
              /\ loadSeq = adminLast.loadSeq + 1
              /\ \E c \in loads : c.id = adminLast.call /\ c.stage = "me"
    /\ adminLast.kind = "weightFailed" =>
          /\ displayOrders = adminLast.display
          /\ adminLast.errors = 1
          /\ loadSeq = adminLast.loadSeq
          /\ \A c \in loads : c.id <= adminLast.loadSeq

\* C26 witness: the second kg item of an order has just got its weight; the
\* order was missing weights before and is complete now, with a total of
\* 4 x 1 + 4 x 2.
C26_Witness ==
    /\ adminLast.kind = "weightOk"
    /\ adminLast.itemId = <<1, 2>>
    /\ adminLast.weightKg = 2
    /\ weightsTag(adminLast.display[1]) = "Missing"
    /\ weightsTag(displayOrders[1]) = "Complete"
    /\ displayOrders[1].items[1].unit = "kg"
    /\ displayOrders[1].total = 12

\* every weight request and every reload has completed
Quiescent == puts = {} /\ loads = {}

\* C30: once all weight requests and all the reloads they triggered have
\* completed, in whatever order, the weight and the line total displayed
\* for an item are those of the last value the operator entered for it
\* (the value the backend holds).
C30_WeightEntryConverges ==
    (Quiescent /\ route = "dashboard") =>
        \A id \in DOMAIN entered :
            ItemOf(server, id).weightKg = entered[id] =>
                /\ ItemOf(displayOrders, id).weightKg = entered[id]
                /\ ItemOf(displayOrders, id).lineTotal =
                      PricedBy(ItemOf(displayOrders, id), entered[id])

====
